---- MODULE Spec2Model ----
(***************************************************************************)
(* Verification model of the FOMC meeting-discussion core:                 *)
(*   src/src/fomc/data/meetings/discussion_service.py  (agents, chair)     *)
(*   src/src/fomc/data/meetings/run_store.py           (artifact store)    *)
(*   src/src/fomc/apps/web/backend.py                  (orchestrator)      *)
(*                                                                         *)
(* The module holds several specifications over one set of variables; each *)
(* specification drives one component and pins the variables of the        *)
(* others at their idle values.                                            *)
(***************************************************************************)
EXTENDS Integers, Sequences, FiniteSets, TLC

VARIABLES
    \* ---- _llm_json (retry combinator) ----
    jpc,        \* "idle" | "loop" | "returned" | "raised"
    jretry,     \* the retry argument
    jorig,      \* the messages argument as passed by the caller
    jmessages,  \* the local variable messages
    ji,         \* loop iterations completed
    jlast,      \* last_exc ("none" when None)
    jlog,       \* one entry per llm.chat invocation: the messages sent, how the try block ended
    \* ---- build_blackboard ----
    bpc,        \* "idle" | "returned" | "raised"
    bexc,       \* the exception class build_blackboard raised, "none" otherwise
    bchat,      \* number of llm.chat invocations build_blackboard made
    bobj,       \* the object parsed from the generator's reply
    blackboard, \* the blackboard returned
    \* ---- one agent or chair call ----
    abb,        \* the blackboard argument
    crisis_mode,\* the crisis_mode argument
    op,         \* the function called, "none" before the call
    inp,        \* its other arguments and the object _llm_json returned to it
    out,        \* what it returned or raised
    \* ---- the run directory of one meeting and ensure_meeting_discussion_pack ----
    files,      \* artifact name -> text of its file, <<>> while the file does not exist
    manifest,   \* manifest.json: [exists, updated_at, artifacts]
    now,        \* the clock _utc_now reads, in seconds
    gen_calls,  \* generator and report-service calls the invocation has made
    ppc,        \* "idle" | "materials" | "generate" | "persist" | "returned" | "raised"
    prefresh,   \* the refresh argument of the invocation
    pidx,       \* position in the material list or in the list of writes
    pdata,      \* the text the pipeline generated, held in memory until PERSIST
    pcached,    \* the "cached" field of the value returned
    invocations,\* invocations started
    completed,  \* history: some invocation has returned
    at_start,   \* history: files and manifest when the invocation started
    \* ---- background job threads working on one meeting ----
    tpc,        \* per thread: "none" | "context" | "test" | "materials" | "msave" |
                \*   "generate" | "write" | "done"
    tkind,      \* per thread: "discussion" | "material"
    trefresh,   \* per thread: the refresh argument
    tidx,       \* per thread: position in the material list or in the list of writes
    tloaded,    \* per thread: the manifest it loaded and still uses, NoManifest otherwise
    tcached,    \* per thread: the "cached" field ensure_meeting_discussion_pack returned
    \* ---- the job registry: one job, its thread (_run_job) and a polling thread ----
    lock,       \* holder of _JOB_LOCK: "free" | "worker" | "poller"
    job,        \* the DbJob in _JOBS: [exists, status, started_at, finished_at, logs, error, result]
    kpc,        \* position of the job thread
    qpc,        \* position of the polling thread in get_db_job: "idle" | "locked"
    snap,       \* the last value get_db_job returned
    unlocked,   \* history: job fields written by a thread not holding _JOB_LOCK
    \* ---- one run of the pipeline of ensure_meeting_discussion_pack ----
    rpc,        \* the statement about to execute, "idle" | "complete" | "raised"
    ri,         \* position of the loop the run is in
    run,        \* the locals of the function
    rlog,       \* one entry per call the run made: the function and its arguments
    \* ---- render_discussion_markdown ----
    renders,    \* the calls made: [args, transcript, generator_calls]
    \* ---- LLMClient.chat ----
    cpc,        \* "idle" | "post" | "returned" | "raised"
    retries,    \* self.config.retries
    attempts,   \* the local attempts
    ci,         \* the loop variable i
    last_exc,   \* the local last_exc, NoExc while None
    posts,      \* one entry per requests.post: how it ended
    cout        \* the content returned or the exception raised, NoExc before

llmVars == <<jpc, jretry, jorig, jmessages, ji, jlast, jlog>>
bbVars == <<bpc, bexc, bchat, bobj, blackboard>>

agVars == <<abb, crisis_mode, op, inp, out>>

storeVars == <<files, manifest, now, gen_calls>>
packVars == <<ppc, prefresh, pidx, pdata, pcached, invocations, completed, at_start>>

jobVars == <<tpc, tkind, trefresh, tidx, tloaded, tcached>>

regVars == <<lock, job, kpc, qpc, snap, unlocked>>
runVars == <<rpc, ri, run, rlog>>
renderVars == <<renders>>
chatVars == <<cpc, retries, attempts, ci, last_exc, posts, cout>>

vars == <<llmVars, bbVars, agVars, storeVars, packVars, jobVars, regVars, runVars, renderVars,
          chatVars>>

(***************************************************************************)
(* Bounds                                                                  *)
(***************************************************************************)
MaxTextLen == 4     \* longest generator reply, in tokens
MaxRetry == 2       \* largest retry argument tried
MaxFactsIn == 3     \* longest facts list in a generator reply
MaxUncIn == 2       \* longest uncertainties list in a generator reply
MaxMenuIn == 2      \* longest policy_menu list in a generator reply
MaxSlotsIn == 2     \* longest draft_statement_slots list in a generator reply
BbReplyLen == 2     \* longest generator reply tried on build_blackboard, in tokens
MaxCites == 2       \* longest citation list in a generator reply
MaxViews == 2       \* longest package_views list in a generator reply
MaxDqIn == 3        \* longest directed_questions list in a generator reply
MaxOpenQ == 7       \* longest open-question pool
MaxPkgsIn == 4      \* longest packages list in a generator reply
MaxVotes == 3       \* longest votes list
SmallCap == 2       \* a max_facts / max_uncertainties argument below the list lengths
MaxClock == 1       \* the clock stops here
MaxRenders == 2     \* calls of render_discussion_markdown compared
MaxChatRetries == 3 \* largest LLMConfig.retries tried (the default)
MaxInvocations == 2 \* invocations of ensure_meeting_discussion_pack

(***************************************************************************)
(* Generator replies.  A reply is a sequence of tokens:                    *)
(*   "{" "}"  braces                                                       *)
(*   "m"      one complete member  "key": scalar                           *)
(*   "k"      a key and its colon, to be followed by an object value       *)
(*   "x"      any other text (prose, a Markdown fence)                     *)
(***************************************************************************)
Tokens == {"{", "}", "m", "k", "x"}

SeqsUpTo(S, n) == UNION {[1..k -> S] : k \in 0..n}

Texts == SeqsUpTo(Tokens, MaxTextLen)

\* json.loads on a span: an object is {} or {member}, member is m or k object
RECURSIVE IsJsonObject(_)
IsJsonObject(s) ==
    /\ Len(s) >= 2
    /\ s[1] = "{"
    /\ s[Len(s)] = "}"
    /\ LET inner == SubSeq(s, 2, Len(s) - 1) IN
         \/ inner = <<>>
         \/ inner = <<"m">>
         \/ /\ Len(inner) >= 3
            /\ inner[1] = "k"
            /\ IsJsonObject(Tail(inner))

\* str.find / str.rfind: 0 when absent (Python's -1), else the 1-based index
Find(t, c) ==
    IF \E i \in 1..Len(t) : t[i] = c
    THEN CHOOSE i \in 1..Len(t) : t[i] = c /\ \A j \in 1..(i - 1) : t[j] # c
    ELSE 0

RFind(t, c) ==
    IF \E i \in 1..Len(t) : t[i] = c
    THEN CHOOSE i \in 1..Len(t) : t[i] = c /\ \A j \in (i + 1)..Len(t) : t[j] # c
    ELSE 0

JsonSpan(t) == SubSeq(t, Find(t, "{"), RFind(t, "}"))

\* _extract_json_object: [ok, exc]; exc is the exception class raised
_extract_json_object(text) ==
    IF text = <<>>
    THEN [ok |-> FALSE, exc |-> "ValueError"]
    ELSE IF Find(text, "{") = 0 \/ RFind(text, "}") = 0
            \/ RFind(text, "}") <= Find(text, "{")
         THEN [ok |-> FALSE, exc |-> "ValueError"]
         ELSE IF IsJsonObject(JsonSpan(text))
              THEN [ok |-> TRUE, exc |-> "none"]
              ELSE [ok |-> FALSE, exc |-> "JSONDecodeError"]

(***************************************************************************)
(* LLMClient.chat as seen by its callers: it returns a text or raises.     *)
(***************************************************************************)
ChatErrors == {"Timeout", "HTTPError"}

ChatOutcomes ==
    [raised : {FALSE}, exc : {"none"}, text : Texts]
        \cup [raised : {TRUE}, exc : ChatErrors, text : {<<>>}]

\* what one try-block of _llm_json ends with, given the chat outcome
AttemptResult(resp) ==
    IF resp.raised
    THEN [ok |-> FALSE, exc |-> resp.exc]
    ELSE _extract_json_object(resp.text)

(***************************************************************************)
(* LLMClient.chat itself (llm.py 68-88): the loop over requests.post.      *)
(* A post ends in a Timeout, a ConnectionError, or a response with a       *)
(* status; a 200 response carries a chat-completion body or another body.  *)
(***************************************************************************)
_RETRY_STATUS == {429, 500, 502, 503, 504}

\* the statuses tried: success, two client errors, the retry statuses, and
\* two server errors outside the retry set
Statuses == {200, 401, 404, 501, 505} \cup _RETRY_STATUS

PostOutcomes ==
    [kind : {"Timeout", "ConnectionError"}, status : {0}, body : {"none"}]
        \cup [kind : {"response"}, status : Statuses \ {200}, body : {"none"}]
        \cup [kind : {"response"}, status : {200}, body : {"content", "malformed"}]

NoExc == [exc |-> "none", status |-> 0]

\* the exception a post and the statements after it raise, NoExc when the
\* content is returned: HTTPError for a retry status (line 75) or from
\* raise_for_status (line 76), KeyError or ValueError from lines 77-78
ExcOf(o) ==
    CASE o.kind # "response" -> [exc |-> o.kind, status |-> 0]
      [] o.kind = "response" /\ o.status >= 400 -> [exc |-> "HTTPError", status |-> o.status]
      [] o.kind = "response" /\ o.status < 400 /\ o.body = "malformed" ->
            [exc |-> "KeyError", status |-> 0]
      [] OTHER -> NoExc

\* the except clause catches requests.Timeout, ConnectionError and HTTPError
Caught(e) == e.exc \in {"Timeout", "ConnectionError", "HTTPError"}

\* a retry test that retries after every HTTP error
should_retry_Mut(e) == e.exc \in {"Timeout", "ConnectionError", "HTTPError"}

\* should_retry = isinstance(exc, (Timeout, ConnectionError)) or status in _RETRY_STATUS
should_retry(e) == e.exc \in {"Timeout", "ConnectionError"} \/ e.status \in _RETRY_STATUS

\* attempts = max(1, int(self.config.retries))
ChatAttempts(r) == IF r > 1 THEN r ELSE 1

ChatIdle ==
    /\ cpc = "idle"
    /\ retries = 0
    /\ attempts = 0
    /\ ci = 0
    /\ last_exc = NoExc
    /\ posts = <<>>
    /\ cout = NoExc

\* entry, up to the loop
ChatCall(r) ==
    /\ cpc = "idle"
    /\ cpc' = "post"
    /\ retries' = r
    /\ attempts' = ChatAttempts(r)
    /\ ci' = 0
    /\ UNCHANGED <<last_exc, posts, cout>>

\* one iteration: the post, the return or the raise, the except clause
ChatPost(o) ==
    LET e == ExcOf(o)
    IN /\ cpc = "post"
       /\ ci < attempts
       /\ posts' = Append(posts, o)
       /\ IF e = NoExc
          THEN /\ cpc' = "returned"
               /\ cout' = [exc |-> "none", status |-> o.status]
               /\ UNCHANGED <<ci, last_exc>>
          ELSE IF ~Caught(e)
          THEN /\ cpc' = "raised"
               /\ cout' = e
               /\ UNCHANGED <<ci, last_exc>>
          ELSE /\ last_exc' = e
               /\ IF ~should_retry(e) \/ ci = attempts - 1
                  THEN cpc' = "raised" /\ cout' = e /\ ci' = ci
                  ELSE cpc' = "post" /\ cout' = cout /\ ci' = ci + 1
       /\ UNCHANGED <<retries, attempts>>

\* line 88 (raise last_exc after the loop) is never reached: attempts >= 1 and
\* the last iteration returns or raises
ChatNext ==
    \/ \E r \in 0..MaxChatRetries : ChatCall(r)
    \/ \E o \in PostOutcomes : ChatPost(o)

(***************************************************************************)
(* _llm_json                                                               *)
(***************************************************************************)
SystemMsg == [role |-> "system", content |-> "system_prompt"]
UserMsg == [role |-> "user", content |-> "prompt"]
CorrectiveMsg == [role |-> "user", content |-> "corrective"]

CallerMessages == {<<SystemMsg, UserMsg>>, <<UserMsg>>}

\* a loop that retries once more than asked
LlmJsonAttempts_Mut(retry) == IF retry + 2 > 1 THEN retry + 2 ELSE 1

\* range(max(1, retry + 1))
LlmJsonAttempts(retry) == IF retry + 1 > 1 THEN retry + 1 ELSE 1

LlmIdle ==
    /\ jpc = "idle"
    /\ jretry = 0
    /\ jorig = <<>>
    /\ jmessages = <<>>
    /\ ji = 0
    /\ jlast = "none"
    /\ jlog = <<>>

\* entry: last_exc = None
LlmJsonCall(messages, retry) ==
    /\ jpc = "idle"
    /\ jpc' = "loop"
    /\ jretry' = retry
    /\ jorig' = messages
    /\ jmessages' = messages
    /\ ji' = 0
    /\ jlast' = "none"
    /\ jlog' = <<>>

\* one iteration of the for loop: chat, extract, and the except clause
LlmJsonIterate(resp) ==
    /\ jpc = "loop"
    /\ ji < LlmJsonAttempts(jretry)
    /\ jlog' = Append(jlog, [messages |-> jmessages, res |-> AttemptResult(resp)])
    /\ IF AttemptResult(resp).ok
       THEN /\ jpc' = "returned"
            /\ UNCHANGED <<jmessages, jlast, ji>>
       ELSE /\ jpc' = "loop"
            /\ jlast' = AttemptResult(resp).exc
            /\ jmessages' = Append(jmessages, CorrectiveMsg)
            /\ ji' = ji + 1
    /\ UNCHANGED <<jretry, jorig>>

\* the loop is exhausted: raise last_exc
LlmJsonRaise ==
    /\ jpc = "loop"
    /\ ji >= LlmJsonAttempts(jretry)
    /\ jpc' = "raised"
    /\ UNCHANGED <<jretry, jorig, jmessages, ji, jlast, jlog>>

LlmNext ==
    \/ \E m \in CallerMessages, r \in 0..MaxRetry : LlmJsonCall(m, r)
    \/ \E resp \in ChatOutcomes : LlmJsonIterate(resp)
    \/ LlmJsonRaise

(***************************************************************************)
(* JSON scalars as the generator may emit them, and Python's int().        *)
(*   int    v is the integer                                               *)
(*   float  v is twice the number (so halves are representable)            *)
(*   str    the decimal text of the integer v, which int() parses          *)
(*   text   any string int() rejects ("abc", "25.5")                       *)
(*   bool   v is 0 or 1                                                    *)
(*   null   None, or the key is missing                                    *)
(***************************************************************************)
JInt(n) == [k |-> "int", v |-> n]
JHalf(h) == [k |-> "float", v |-> h]
JStr(n) == [k |-> "str", v |-> n]
JBool(b) == [k |-> "bool", v |-> b]
JText == [k |-> "text", v |-> 0]
JNull == [k |-> "null", v |-> 0]

NoneInt == [some |-> FALSE, v |-> 0]
SomeInt(n) == [some |-> TRUE, v |-> n]

\* int(float) truncates toward zero
TruncHalf(h) == IF h >= 0 THEN h \div 2 ELSE -((-h) \div 2)

\* _to_int: int(x), None on any exception
_to_int(x) ==
    CASE x.k = "int" -> SomeInt(x.v)
      [] x.k = "float" -> SomeInt(TruncHalf(x.v))
      [] x.k = "str" -> SomeInt(x.v)
      [] x.k = "bool" -> SomeInt(x.v)
      [] OTHER -> NoneInt

\* Python's  d in S  for an Optional[int] d and a collection S of ints
InInts(d, S) == d.some /\ d.v \in S

(***************************************************************************)
(* Strings.  The model's strings and what the code's normalisers do to     *)
(* them.                                                                   *)
(***************************************************************************)
\* _normalize_ws: collapse whitespace runs, strip
_normalize_ws(s) ==
    CASE s = " " -> ""
      [] s = " a  b " -> "a b"
      [] s = "a  b" -> "a b"
      [] OTHER -> s

\* str.strip().lower()
StripLower(s) ==
    CASE s = " CPI " -> "cpi"
      [] s = " Hawk" -> "hawk"
      [] s = " " -> ""
      [] OTHER -> s

\* str.strip()
Strip(s) ==
    CASE s = " " -> ""
      [] s = " a  b " -> "a  b"
      [] OTHER -> s

Digit(d) == CASE d = 0 -> "0" [] d = 1 -> "1" [] d = 2 -> "2" [] d = 3 -> "3"
              [] d = 4 -> "4" [] d = 5 -> "5" [] d = 6 -> "6" [] d = 7 -> "7"
              [] d = 8 -> "8" [] d = 9 -> "9"

\* str(n) for n >= 0
RECURSIVE Decimal(_)
Decimal(n) == IF n < 10 THEN Digit(n) ELSE Decimal(n \div 10) \o Digit(n % 10)

\* f"{i:02d}"
TwoDigits(i) == IF i < 10 THEN "0" \o Decimal(i) ELSE Decimal(i)

_format_fact_id(i) == "F" \o TwoDigits(i)

_format_uncertainty_id(i) == "U" \o TwoDigits(i)

\* _ensure_list on a JSON field: [k, v], v the list's items or the one value
_ensure_list(x) ==
    CASE x.k = "null" -> <<>>
      [] x.k = "list" -> x.v
      [] OTHER -> <<x.v[1]>>

JList(items) == [k |-> "list", v |-> items]
JMissing == [k |-> "null", v |-> <<>>]
JSingle(item) == [k |-> "one", v |-> <<item>>]

\* seq[:n]
Take(seq, n) == SubSeq(seq, 1, IF Len(seq) < n THEN Len(seq) ELSE n)

(***************************************************************************)
(* build_blackboard                                                        *)
(***************************************************************************)
max_facts_default == 28
max_uncertainties_default == 8

FactSources == {"macro", "nfp", "cpi", "taylor"}
MenuKeys == {"cut_25", "hold", "hike_25"}
MenuDeltas == {-25, 0, 25}
SlotKeys == {"economic_activity", "labor", "inflation", "financial_conditions",
             "risks", "policy_decision", "forward_guidance", "balance_sheet"}
\* sorted(slot_keys)
SortedSlotKeys == <<"balance_sheet", "economic_activity", "financial_conditions",
                    "forward_guidance", "inflation", "labor", "policy_decision", "risks">>

DefaultPolicyMenu ==
    << [key |-> "cut_25", delta_bps |-> -25, label |-> "cut 25bp"],
       [key |-> "hold", delta_bps |-> 0, label |-> "hold"],
       [key |-> "hike_25", delta_bps |-> 25, label |-> "hike 25bp"] >>

\* the generator's list items
NonDict == [dict |-> FALSE]
FactItems ==
    {[dict |-> FALSE, text |-> "", source |-> ""]}
        \cup [dict : {TRUE}, text : {"", "a", "crisis"}, source : {"macro", " CPI ", "blog"}]
UncItems ==
    {[dict |-> FALSE, text |-> ""]} \cup [dict : {TRUE}, text : {"", " ", "a", " a  b "}]
MenuItems ==
    {[dict |-> FALSE, key |-> "", delta_bps |-> JNull, label |-> ""]}
        \cup [dict : {TRUE}, key : {"cut_25", "hold", "x"},
              delta_bps : {JInt(-25), JInt(0), JInt(50), JStr(25), JHalf(1), JNull},
              label : {""}]
SlotItems ==
    {[dict |-> FALSE, key |-> "", guidance |-> ""]}
        \cup [dict : {TRUE}, key : {"labor", "risks", "x"}, guidance : {"g"}]

JFields(Items, n) ==
    {JMissing} \cup {JList(l) : l \in SeqsUpTo(Items, n)} \cup {JSingle(i) : i \in Items}

\* the parsed objects tried: each list varies while the others stay fixed
BlackboardObjects ==
    [facts : JFields(FactItems, MaxFactsIn), uncertainties : {JMissing},
     policy_menu : {JMissing}, draft_statement_slots : {JMissing}]
    \cup
    [facts : {JMissing}, uncertainties : JFields(UncItems, MaxUncIn),
     policy_menu : {JMissing}, draft_statement_slots : {JMissing}]
    \cup
    [facts : {JMissing}, uncertainties : {JMissing},
     policy_menu : JFields(MenuItems, MaxMenuIn), draft_statement_slots : {JMissing}]
    \cup
    [facts : {JMissing}, uncertainties : {JMissing},
     policy_menu : {JMissing}, draft_statement_slots : JFields(SlotItems, MaxSlotsIn)]

\* for idx, item in enumerate(facts_in[:max_facts], start=1): ... facts.append(...)
RECURSIVE BuildFacts(_, _)
BuildFacts(items, idx) ==
    IF idx > Len(items) THEN <<>>
    ELSE LET item == items[idx]
             text == _normalize_ws(item.text)
             source == StripLower(item.source)
         IN IF ~item.dict \/ text = "" \/ source \notin FactSources
            THEN BuildFacts(items, idx + 1)
            ELSE <<[id |-> _format_fact_id(idx), text |-> text, source |-> source]>>
                    \o BuildFacts(items, idx + 1)

RECURSIVE BuildUncertainties(_, _)
BuildUncertainties(items, idx) ==
    IF idx > Len(items) THEN <<>>
    ELSE LET item == items[idx]
             text == _normalize_ws(item.text)
         IN IF ~item.dict \/ text = ""
            THEN BuildUncertainties(items, idx + 1)
            ELSE <<[id |-> _format_uncertainty_id(idx), text |-> text]>>
                    \o BuildUncertainties(items, idx + 1)

RECURSIVE BuildPolicyMenu(_)
BuildPolicyMenu(items) ==
    IF items = <<>> THEN <<>>
    ELSE LET it == Head(items)
             key == Strip(it.key)
             delta == _to_int(it.delta_bps)
             label == IF Strip(it.label) = "" THEN key ELSE Strip(it.label)
         IN IF it.dict /\ key \in MenuKeys /\ InInts(delta, MenuDeltas)
            THEN <<[key |-> key, delta_bps |-> delta.v, label |-> label]>>
                    \o BuildPolicyMenu(Tail(items))
            ELSE BuildPolicyMenu(Tail(items))

RECURSIVE BuildSlots(_)
BuildSlots(items) ==
    IF items = <<>> THEN <<>>
    ELSE LET it == Head(items)
             key == Strip(it.key)
         IN IF it.dict /\ key \in SlotKeys
            THEN <<[key |-> key, guidance |-> Strip(it.guidance)]>> \o BuildSlots(Tail(items))
            ELSE BuildSlots(Tail(items))

\* the post-processing of build_blackboard, from the parsed object to the return value
BlackboardOf(obj, max_facts, max_uncertainties) ==
    LET policy_menu == BuildPolicyMenu(_ensure_list(obj.policy_menu))
        slots == BuildSlots(_ensure_list(obj.draft_statement_slots))
    IN [facts |-> BuildFacts(Take(_ensure_list(obj.facts), max_facts), 1),
        uncertainties |->
            BuildUncertainties(Take(_ensure_list(obj.uncertainties), max_uncertainties), 1),
        policy_menu |-> IF policy_menu = <<>> THEN DefaultPolicyMenu ELSE policy_menu,
        draft_statement_slots |->
            IF slots = <<>>
            THEN [i \in 1..Len(SortedSlotKeys) |-> [key |-> SortedSlotKeys[i], guidance |-> ""]]
            ELSE slots]

NoObject ==
    [facts |-> JMissing, uncertainties |-> JMissing,
     policy_menu |-> JMissing, draft_statement_slots |-> JMissing]

NoBlackboard ==
    [facts |-> <<>>, uncertainties |-> <<>>, policy_menu |-> <<>>,
     draft_statement_slots |-> <<>>]

BbIdle ==
    /\ bpc = "idle"
    /\ bexc = "none"
    /\ bchat = 0
    /\ bobj = NoObject
    /\ blackboard = NoBlackboard

\* build_blackboard: one llm.chat, _extract_json_object, the post-processing
build_blackboard(resp, obj, max_facts, max_uncertainties) ==
    /\ bpc = "idle"
    /\ bchat' = bchat + 1
    /\ IF AttemptResult(resp).ok
       THEN /\ bpc' = "returned"
            /\ bexc' = "none"
            /\ bobj' = obj
            /\ blackboard' = BlackboardOf(obj, max_facts, max_uncertainties)
       ELSE /\ bpc' = "raised"
            /\ bexc' = AttemptResult(resp).exc
            /\ UNCHANGED <<bobj, blackboard>>

\* the replies tried: every text of at most BbReplyLen tokens, and every error
BbReplies == {r \in ChatOutcomes : Len(r.text) <= BbReplyLen}

BuildFails ==
    \E resp \in BbReplies :
        /\ ~AttemptResult(resp).ok
        /\ build_blackboard(resp, NoObject, max_facts_default, max_uncertainties_default)

BuildReturns ==
    \E resp \in BbReplies :
        /\ AttemptResult(resp).ok
        /\ \E obj \in BlackboardObjects,
              mf \in {SmallCap, max_facts_default},
              mu \in {SmallCap, max_uncertainties_default} :
                build_blackboard(resp, obj, mf, mu)

BbNext ==
    /\ bpc = "idle"
    /\ (BuildFails \/ BuildReturns)

(***************************************************************************)
(* The agents.  Each agent function renders a prompt, calls _llm_json and  *)
(* post-processes the object it returns; an exception of _llm_json         *)
(* propagates.                                                             *)
(***************************************************************************)
DEFAULT_ROLES == <<"centrist", "hawk", "dove">>
RoleNames == {DEFAULT_ROLES[i] : i \in 1..Len(DEFAULT_ROLES)}

\* allowed = [-25, 0, 25] + ([-50, 50] if crisis_mode else [])
AllowedDeltas(crisis) == {-25, 0, 25} \cup (IF crisis THEN {-50, 50} ELSE {})

\* x == n in Python, for a JSON scalar x and an int n
PyEqInt(x, n) ==
    CASE x.k = "int" -> x.v = n
      [] x.k = "float" -> x.v = 2 * n
      [] x.k = "bool" -> x.v = n
      [] OTHER -> FALSE

\* the delta values a generator reply may carry
DeltaValues ==
    {JInt(-50), JInt(-25), JInt(0), JInt(25), JInt(50), JInt(10),
     JStr(25), JStr(75), JHalf(51), JHalf(1), JHalf(-1), JHalf(50),
     JBool(1), JText, JNull}

FactIdsOf(bb) == {bb.facts[i].id : i \in 1..Len(bb.facts)}
UncIdsOf(bb) == {bb.uncertainties[i].id : i \in 1..Len(bb.uncertainties)}

SelectNotIn(seq, S) == SelectSeq(seq, LAMBDA x : x \notin S)

\* a validator that forgets the uncertainties
_validate_citations_Mut(cited_facts, cited_uncertainties, bb) ==
    LET bad_f == SelectNotIn(cited_facts, FactIdsOf(bb))
    IN [ok |-> bad_f = <<>>, bad_f |-> bad_f, bad_u |-> <<>>]

\* _validate_citations: (ok, err); err is determined by the two lists of bad ids
_validate_citations(cited_facts, cited_uncertainties, bb) ==
    LET bad_f == SelectNotIn(cited_facts, FactIdsOf(bb))
        bad_u == SelectNotIn(cited_uncertainties, UncIdsOf(bb))
    IN [ok |-> bad_f = <<>> /\ bad_u = <<>>, bad_f |-> bad_f, bad_u |-> bad_u]

NoCitationError == [present |-> FALSE, bad_f |-> <<>>, bad_u |-> <<>>]

\* obj["citation_error"] = err, when not ok
CitationErrorOf(val) ==
    IF val.ok THEN NoCitationError
    ELSE [present |-> TRUE, bad_f |-> val.bad_f, bad_u |-> val.bad_u]

\* the ids a reply may cite, as str() renders them ("None": the key is missing)
CitedFactIds == {"F01", "F02", "F09", "None"}
CitedUncIds == {"U01", "U09"}

JNum == [k |-> "num", v |-> <<>>]

\* a citation list field: missing, a list, one bare value, or (for the stance
\* card's lists of objects) a number
CiteFields(Ids) ==
    {JMissing} \cup {JList(l) : l \in SeqsUpTo(Ids, MaxCites)} \cup {JSingle(i) : i \in Ids}

ReasonItems == {[dict |-> FALSE, id |-> ""]} \cup [dict : {TRUE}, id : CitedFactIds]
RiskItems == {[dict |-> FALSE, id |-> ""]} \cup [dict : {TRUE}, id : CitedUncIds \cup {"None"}]

ObjListFields(Items) ==
    {JMissing, JNum} \cup {JList(l) : l \in SeqsUpTo(Items, MaxCites)}
        \cup {JSingle(i) : i \in {x \in Items : x.dict}}

\* obj.get(key) or [] , then  for r in ... : a number cannot be iterated
\* (TypeError), a bare object iterates over its keys, which are not dicts
IterableOf(x) ==
    CASE x.k = "null" -> [ok |-> TRUE, items |-> <<>>]
      [] x.k = "list" -> [ok |-> TRUE, items |-> x.v]
      [] x.k = "one" -> [ok |-> TRUE, items |-> <<>>]
      [] OTHER -> [ok |-> FALSE, items |-> <<>>]

\* [str(r.get(key)) for r in items if isinstance(r, dict)]
RECURSIVE IdsOfDicts(_)
IdsOfDicts(items) ==
    IF items = <<>> THEN <<>>
    ELSE IF Head(items).dict
         THEN <<Head(items).id>> \o IdsOfDicts(Tail(items))
         ELSE IdsOfDicts(Tail(items))

Raised(exc) == [raised |-> TRUE, exc |-> exc]

\* the post-processing of generate_stance_card
StanceCardOf(role, bb, crisis, obj) ==
    LET delta == _to_int(obj.preferred_delta_bps)
        reasons == IterableOf(obj.top_reasons)
        risks == IterableOf(obj.key_risks)
        val == _validate_citations(IdsOfDicts(reasons.items), IdsOfDicts(risks.items), bb)
    IN IF ~reasons.ok \/ ~risks.ok
       THEN Raised("TypeError")
       ELSE [raised |-> FALSE, exc |-> "none", role |-> role,
             preferred_delta_bps |->
                 IF InInts(delta, AllowedDeltas(crisis))
                 THEN obj.preferred_delta_bps ELSE JInt(0),
             top_reasons |-> obj.top_reasons,
             key_risks |-> obj.key_risks,
             citation_error |-> CitationErrorOf(val),
             \* the keys the function assigned in the generator's object
             engine_keys |->
                 {"role"}
                     \cup (IF InInts(delta, AllowedDeltas(crisis))
                           THEN {} ELSE {"preferred_delta_bps"})
                     \cup (IF val.ok THEN {} ELSE {"citation_error"})]

\* the post-processing of generate_public_speech
SpeechOf(role, bb, obj) ==
    LET val == _validate_citations(_ensure_list(obj.cited_facts),
                                   _ensure_list(obj.cited_uncertainties), bb)
    IN [raised |-> FALSE, exc |-> "none", role |-> role,
        cited_facts |-> obj.cited_facts,
        cited_uncertainties |-> obj.cited_uncertainties,
        citation_error |-> CitationErrorOf(val)]

\* the post-processing of generate_vote
VoteOf(role, bb, crisis, obj) ==
    LET delta == _to_int(obj.vote_delta_bps)
        valid == InInts(delta, AllowedDeltas(crisis))
        val == _validate_citations(_ensure_list(obj.cited_facts),
                                   _ensure_list(obj.cited_uncertainties), bb)
    IN [raised |-> FALSE, exc |-> "none", role |-> role,
        vote_delta_bps |-> IF valid THEN obj.vote_delta_bps ELSE JInt(0),
        invalid_vote_reason |-> ~valid,
        cited_facts |-> obj.cited_facts,
        cited_uncertainties |-> obj.cited_uncertainties,
        citation_error |-> CitationErrorOf(val)]

PackageViews == {"support", "acceptable", "oppose"}

ViewItems ==
    {[dict |-> FALSE, package_key |-> "", view |-> "", because |-> "", cited_facts |-> JMissing]}
        \cup [dict : {TRUE}, package_key : {"A"}, view : {"support"}, because : {" a  b "},
              cited_facts : {JMissing, JList(<<"F01">>), JList(<<"F01", "F09">>), JSingle("F02")}]
        \cup {[dict |-> TRUE, package_key |-> "B", view |-> " Oppose ", because |-> "",
               cited_facts |-> JList(<<"F01">>)],
              [dict |-> TRUE, package_key |-> "A", view |-> "maybe", because |-> "",
               cited_facts |-> JMissing]}

\* view.strip().lower()
ViewStripLower(s) == IF s = " Oppose " THEN "oppose" ELSE s

\* a loop that stops at the first invalid citation (break for continue)
RECURSIVE PackageViewsOf_Mut(_, _)
PackageViewsOf_Mut(items, bb) ==
    IF items = <<>> THEN <<>>
    ELSE LET it == Head(items)
             view == ViewStripLower(it.view)
             cited == _ensure_list(it.cited_facts)
             rest == PackageViewsOf_Mut(Tail(items), bb)
         IN IF ~it.dict THEN rest
            ELSE IF view \notin PackageViews THEN rest
            ELSE IF ~_validate_citations(cited, <<>>, bb).ok THEN <<>>
            ELSE <<[package_key |-> Strip(it.package_key), view |-> view,
                    because |-> _normalize_ws(it.because), cited_facts |-> cited]>> \o rest

\* the loop of generate_package_preference over the generator's views
RECURSIVE PackageViewsOf(_, _)
PackageViewsOf(items, bb) ==
    IF items = <<>> THEN <<>>
    ELSE LET it == Head(items)
             view == ViewStripLower(it.view)
             cited == _ensure_list(it.cited_facts)
             rest == PackageViewsOf(Tail(items), bb)
         IN IF ~it.dict THEN rest
            ELSE IF view \notin PackageViews THEN rest
            ELSE IF ~_validate_citations(cited, <<>>, bb).ok THEN rest
            ELSE <<[package_key |-> Strip(it.package_key), view |-> view,
                    because |-> _normalize_ws(it.because), cited_facts |-> cited]>> \o rest

PackagePreferenceOf(role, bb, obj) ==
    [raised |-> FALSE, exc |-> "none", role |-> role,
     package_views |-> PackageViewsOf(_ensure_list(obj.package_views), bb)]

\* the objects _llm_json may hand to each agent
StanceObjects ==
    [preferred_delta_bps : DeltaValues, top_reasons : {JMissing}, key_risks : {JMissing}]
    \cup
    [preferred_delta_bps : {JInt(0)}, top_reasons : ObjListFields(ReasonItems),
     key_risks : {JMissing, JList(<<[dict |-> TRUE, id |-> "U01"]>>),
                  JList(<<[dict |-> TRUE, id |-> "U09"]>>)}]
    \cup
    [preferred_delta_bps : {JInt(0)}, top_reasons : {JMissing},
     key_risks : ObjListFields(RiskItems)]

SpeechObjects ==
    [cited_facts : CiteFields(CitedFactIds), cited_uncertainties : CiteFields(CitedUncIds)]

VoteObjects ==
    [vote_delta_bps : DeltaValues, cited_facts : {JMissing}, cited_uncertainties : {JMissing}]
    \cup
    [vote_delta_bps : {JInt(25)}, cited_facts : CiteFields(CitedFactIds),
     cited_uncertainties : CiteFields(CitedUncIds)]

PreferenceObjects ==
    [package_views : {JMissing} \cup {JList(l) : l \in SeqsUpTo(ViewItems, MaxViews)}
                        \cup {JSingle(i) : i \in ViewItems}]

\* the blackboards the agents are called with: values build_blackboard returns
AgentBlackboards ==
    { BlackboardOf([NoObject EXCEPT
          !.facts = JList(<<[dict |-> TRUE, text |-> "a", source |-> "macro"],
                            [dict |-> TRUE, text |-> "a", source |-> " CPI "]>>),
          !.uncertainties = JList(<<[dict |-> TRUE, text |-> "a"]>>)],
          max_facts_default, max_uncertainties_default),
      BlackboardOf([NoObject EXCEPT
          !.facts = JList(<<[dict |-> TRUE, text |-> "a", source |-> "blog"],
                            [dict |-> TRUE, text |-> "crisis", source |-> "macro"]>>),
          !.policy_menu = JList(<<[dict |-> TRUE, key |-> "cut_25",
                                   delta_bps |-> JInt(-25), label |-> ""]>>)],
          max_facts_default, max_uncertainties_default),
      BlackboardOf(NoObject, max_facts_default, max_uncertainties_default) }

NoCall == [none |-> TRUE]

AgIdle ==
    /\ abb = NoBlackboard
    /\ crisis_mode = FALSE
    /\ op = "none"
    /\ inp = NoCall
    /\ out = NoCall

AgInit ==
    /\ abb \in AgentBlackboards
    /\ crisis_mode \in BOOLEAN
    /\ op = "none"
    /\ inp = NoCall
    /\ out = NoCall

Called(fn, args, result) ==
    /\ op = "none"
    /\ op' = fn
    /\ inp' = args
    /\ out' = result
    /\ UNCHANGED <<abb, crisis_mode>>

generate_stance_card(role, obj) ==
    Called("generate_stance_card", [role |-> role, obj |-> obj],
           StanceCardOf(role, abb, crisis_mode, obj))

generate_public_speech(role, obj) ==
    Called("generate_public_speech", [role |-> role, obj |-> obj], SpeechOf(role, abb, obj))

generate_vote(role, obj) ==
    Called("generate_vote", [role |-> role, obj |-> obj], VoteOf(role, abb, crisis_mode, obj))

generate_package_preference(role, obj) ==
    Called("generate_package_preference", [role |-> role, obj |-> obj],
           PackagePreferenceOf(role, abb, obj))

(***************************************************************************)
(* The chair.                                                              *)
(***************************************************************************)
max_questions_default == 6
PackagesCap == 3

Min(a, b) == IF a < b THEN a ELSE b
Max(a, b) == IF a > b THEN a ELSE b

DqItems ==
    {[dict |-> FALSE, to_role |-> "", question |-> ""]}
        \cup [dict : {TRUE}, to_role : {"centrist", " Hawk", "chair"}, question : {"q"}]
        \cup {[dict |-> TRUE, to_role |-> "dove", question |-> " "]}

\* the open-question pools: n questions, the first one not yet normalised
OpenQuestionPool(n) == [i \in 1..n |-> IF i = 1 THEN " a  b " ELSE "q" \o Decimal(i)]

\* a loop that keeps a question whatever role it addresses
RECURSIVE DirectedOf_Mut(_)
DirectedOf_Mut(items) ==
    IF items = <<>> THEN <<>>
    ELSE LET it == Head(items)
             to_role == StripLower(it.to_role)
             q == _normalize_ws(it.question)
         IN IF it.dict /\ q # ""
            THEN <<[to_role |-> to_role, question |-> q]>> \o DirectedOf_Mut(Tail(items))
            ELSE DirectedOf_Mut(Tail(items))

\* the loop of chair_select_questions over the generator's directed questions
RECURSIVE DirectedOf(_)
DirectedOf(items) ==
    IF items = <<>> THEN <<>>
    ELSE LET it == Head(items)
             to_role == StripLower(it.to_role)
             q == _normalize_ws(it.question)
         IN IF it.dict /\ to_role \in RoleNames /\ q # ""
            THEN <<[to_role |-> to_role, question |-> q]>> \o DirectedOf(Tail(items))
            ELSE DirectedOf(Tail(items))

\* open_questions[: max(3, min(max_questions, len(open_questions)))]
FallbackPool(open_questions, max_questions) ==
    Take(open_questions, Max(3, Min(max_questions, Len(open_questions))))

\* fallback: round-robin over roles = [centrist, hawk, dove]
FallbackQuestions(open_questions, max_questions) ==
    LET pool == FallbackPool(open_questions, max_questions)
    IN [i \in 1..Len(pool) |->
            [to_role |-> DEFAULT_ROLES[((i - 1) % 3) + 1], question |-> _normalize_ws(pool[i])]]

\* the post-processing of chair_select_questions
ChairQuestionsOf(open_questions, max_questions, obj) ==
    LET dq == DirectedOf(Take(_ensure_list(obj.directed_questions), max_questions))
    IN [raised |-> FALSE, exc |-> "none",
        directed_questions |->
            IF Len(dq) < 3 THEN FallbackQuestions(open_questions, max_questions) ELSE dq]

PkgItems ==
    {[dict |-> FALSE, key |-> "", delta_bps |-> JNull, stance |-> ""]}
        \cup [dict : {TRUE}, key : {""}, delta_bps : {JInt(-25), JInt(0), JStr(25), JNull},
              stance : {"hawkish"}]
        \cup {[dict |-> TRUE, key |-> "B", delta_bps |-> JInt(0), stance |-> "x"]}

\* {int(it.get("delta_bps")) for it in policy_menu ...}
MenuDeltasOf(bb) == {bb.policy_menu[i].delta_bps : i \in 1..Len(bb.policy_menu)}

PackageStances == {"hawkish", "neutral", "dovish"}

\* the loop of chair_propose_packages over the generator's packages
RECURSIVE PackagesOf(_, _)
PackagesOf(items, allowed) ==
    IF items = <<>> THEN <<>>
    ELSE LET it == Head(items)
             delta == _to_int(it.delta_bps)
             rest == PackagesOf(Tail(items), allowed)
         IN IF ~it.dict \/ ~InInts(delta, allowed) THEN rest
            ELSE <<[key |-> IF Strip(it.key) = "" THEN "A" ELSE Strip(it.key),
                    delta_bps |-> delta.v,
                    stance |-> IF it.stance \in PackageStances THEN it.stance ELSE "neutral"]>>
                    \o rest

FallbackPackage == [key |-> "A", delta_bps |-> 0, stance |-> "neutral"]

\* the post-processing of chair_propose_packages
ChairPackagesOf(bb, obj) ==
    LET pkgs == PackagesOf(Take(_ensure_list(obj.packages), PackagesCap), MenuDeltasOf(bb))
    IN [raised |-> FALSE, exc |-> "none",
        packages |-> IF pkgs = <<>> THEN <<FallbackPackage>> ELSE pkgs]

VoteItems ==
    {[dict |-> FALSE, role |-> "", vote_delta_bps |-> JNull]}
        \cup [dict : {TRUE}, role : {"hawk"},
              vote_delta_bps : {JInt(-25), JInt(0), JInt(25), JHalf(1), JHalf(-51),
                                JStr(25), JText, JNull}]
        \cup {[dict |-> TRUE, role |-> "", vote_delta_bps |-> JInt(0)],
              [dict |-> TRUE, role |-> "dove", vote_delta_bps |-> JInt(-25)]}

\* a bucket rule that counts a zero delta as a cut
_vote_bucket_Mut(delta) ==
    LET d == _to_int(delta)
    IN IF ~d.some THEN "unknown"
       ELSE IF d.v <= 0 THEN "cut"
       ELSE "hike"

\* _vote_bucket
_vote_bucket(delta) ==
    LET d == _to_int(delta)
    IN IF ~d.some THEN "unknown"
       ELSE IF d.v < 0 THEN "cut"
       ELSE IF d.v > 0 THEN "hike"
       ELSE "hold"

\* number of dict entries of votes that fall in bucket b
CountBucket(votes, b) ==
    Cardinality({i \in 1..Len(votes) :
                    votes[i].dict /\ _vote_bucket(votes[i].vote_delta_bps) = b})

TallyOf(votes) ==
    [cut |-> CountBucket(votes, "cut"), hold |-> CountBucket(votes, "hold"),
     hike |-> CountBucket(votes, "hike"), unknown |-> CountBucket(votes, "unknown")]

\* f"{passed}:{max(0, total - passed)}"
VoteSummaryOf(tally) ==
    LET total == tally.cut + tally.hold + tally.hike + tally.unknown
        passed == Max(tally.cut, Max(tally.hold, tally.hike))
    IN Decimal(passed) \o ":" \o Decimal(Max(0, total - passed))

\* sorted(set(roles of the dict entries with a truthy role)), as a set
RolesInVote(votes) ==
    {votes[i].role : i \in {j \in 1..Len(votes) : votes[j].dict /\ votes[j].role # ""}}

StatementHeading == "# FOMC statement (simulated)"
MinutesHeading == "# Minutes summary (simulated)"

\* statement/minutes: strip, put the heading in front unless the text starts with "#"
WithHeading(text, heading) ==
    IF text = "# S" THEN "# S" \o "\n"
    ELSE IF Strip(text) = "" THEN heading \o "\n"
    ELSE heading \o "\n\n" \o Strip(text) \o "\n"

StatementObjects == [statement_md : {"", "# S", "s"}, minutes_summary_md : {"", "# S"}]

\* chair_write_statement_and_minutes: the values injected into the prompt and
\* the two documents returned
ChairStatementOf(votes, obj) ==
    [raised |-> FALSE, exc |-> "none",
     roles_in_vote |-> RolesInVote(votes),
     roles_count |-> Cardinality(RolesInVote(votes)),
     tally |-> TallyOf(votes),
     vote_summary |-> VoteSummaryOf(TallyOf(votes)),
     statement_md |-> WithHeading(obj.statement_md, StatementHeading),
     minutes_summary_md |-> WithHeading(obj.minutes_summary_md, MinutesHeading)]

chair_select_questions(open_questions, max_questions, obj) ==
    Called("chair_select_questions",
           [open_questions |-> open_questions, max_questions |-> max_questions, obj |-> obj],
           ChairQuestionsOf(open_questions, max_questions, obj))

chair_propose_packages(obj) ==
    Called("chair_propose_packages", [obj |-> obj], ChairPackagesOf(abb, obj))

chair_write_statement_and_minutes(votes, obj) ==
    Called("chair_write_statement_and_minutes", [votes |-> votes, obj |-> obj],
           ChairStatementOf(votes, obj))

ChairFunctions ==
    {"chair_select_questions", "chair_propose_packages", "chair_write_statement_and_minutes"}

ChairNext ==
    \/ \E n \in 0..MaxOpenQ, mq \in {SmallCap, max_questions_default},
          l \in SeqsUpTo(DqItems, MaxDqIn) :
            chair_select_questions(OpenQuestionPool(n), mq, [directed_questions |-> JList(l)])
    \/ \E n \in 0..MaxOpenQ, f \in {JMissing} \cup {JSingle(i) : i \in DqItems} :
            chair_select_questions(OpenQuestionPool(n), max_questions_default,
                                   [directed_questions |-> f])
    \/ \E f \in JFields(PkgItems, MaxPkgsIn) : chair_propose_packages([packages |-> f])
    \/ \E v \in SeqsUpTo(VoteItems, MaxVotes) :
            chair_write_statement_and_minutes(v, [statement_md |-> "s", minutes_summary_md |-> ""])
    \/ \E o \in StatementObjects :
            chair_write_statement_and_minutes(
                <<[dict |-> TRUE, role |-> "hawk", vote_delta_bps |-> JInt(0)]>>, o)

AgentFunctions ==
    {"generate_stance_card", "generate_public_speech", "generate_vote",
     "generate_package_preference"}

\* _llm_json raised: the exception leaves the agent function
AgentLlmRaises(fn, exc) ==
    Called(fn, [role |-> "", obj |-> NoCall], Raised(exc))

AgNext ==
    /\ op = "none"
    /\ \/ \E r \in RoleNames, o \in StanceObjects : generate_stance_card(r, o)
       \/ \E r \in RoleNames, o \in SpeechObjects : generate_public_speech(r, o)
       \/ \E r \in RoleNames, o \in VoteObjects : generate_vote(r, o)
       \/ \E r \in RoleNames, o \in PreferenceObjects : generate_package_preference(r, o)
       \/ ChairNext
       \/ \E fn \in AgentFunctions \cup ChairFunctions,
              e \in ChatErrors \cup {"ValueError", "JSONDecodeError"} :
                AgentLlmRaises(fn, e)

(***************************************************************************)
(* The artifact store (run_store.py) of one meeting.  A text is a sequence *)
(* of characters; a file that does not exist is <<>> (every text the       *)
(* pipeline writes is non-empty: a heading line at least).                 *)
(***************************************************************************)
MaterialNames == <<"macro", "nfp", "cpi", "taylor">>

\* the writes at the end of ensure_meeting_discussion_pack, in order
PersistOrder ==
    <<"blackboard", "stance_cards", "round_summaries", "packages", "votes",
      "discussion", "statement", "minutes_summary">>

\* the keys of the cached test of ensure_meeting_discussion_pack
CachedKeys == {"discussion", "statement", "minutes_summary", "votes", "blackboard", "stance_cards"}

Range(seq) == {seq[i] : i \in 1..Len(seq)}

ArtifactNames == Range(MaterialNames) \cup Range(PersistOrder)

\* the texts a pipeline run may produce (two of different lengths)
ArtifactTexts == {<<"a">>, <<"a", "a">>}

MaterialText == <<"a">>

\* the artifacts written with write_artifact_json
JsonArtifacts == {"blackboard", "stance_cards", "round_summaries", "packages", "votes"}

\* artifact_path relative to the runs directory: f"{safe}.{ext}"
artifact_path(name) == name \o (IF name \in JsonArtifacts THEN ".json" ELSE ".md")

\* the meta argument of the write: {"kind": name} for the discussion artifacts
MetaOf(name) == [kind |-> IF name \in Range(PersistOrder) THEN name ELSE "material"]

NoEntry == [present |-> FALSE, path |-> "", updated_at |-> 0, bytes |-> 0, meta |-> [kind |-> ""]]

NoManifest == [exists |-> FALSE, updated_at |-> 0, artifacts |-> [n \in ArtifactNames |-> NoEntry]]

\* ensure_meeting_run: writes an empty manifest when there is none
ensure_meeting_run(m, t) ==
    IF m.exists THEN m
    ELSE [exists |-> TRUE, updated_at |-> t, artifacts |-> [n \in ArtifactNames |-> NoEntry]]

\* the manifest after write_artifact_text / write_artifact_json: load, set
\* artifacts[name], save_manifest
ManifestAfterWrite(m, name, text, t) ==
    [exists |-> TRUE,
     updated_at |-> t,
     artifacts |-> [m.artifacts EXCEPT ![name] =
                        [present |-> TRUE, path |-> artifact_path(name), updated_at |-> t,
                         bytes |-> Len(text), meta |-> MetaOf(name)]]]

\* write_artifact_text / write_artifact_json
write_artifact(name, text) ==
    /\ files' = [files EXCEPT ![name] = text]
    /\ manifest' = ManifestAfterWrite(manifest, name, text, now)

\* read_artifact_text is None when the file does not exist
read_artifact_text(name) == files[name]

StoreInit ==
    /\ files = [n \in ArtifactNames |-> <<>>]
    /\ manifest = NoManifest
    /\ now = 0
    /\ gen_calls = 0

\* a second passes (between invocations: the writes of one invocation read
\* the same second)
Tick ==
    /\ ppc \in {"idle", "returned", "raised"}
    /\ now < MaxClock
    /\ now' = now + 1
    /\ UNCHANGED <<files, manifest, gen_calls, packVars>>

(***************************************************************************)
(* ensure_meeting_discussion_pack (backend.py).  One invocation at a time  *)
(* here; its steps are cut where a call into a generator, the report       *)
(* service or the file system can raise.                                   *)
(***************************************************************************)
\* a cached test that lost its "not"
IsCached_Mut(refresh, existing) ==
    refresh /\ \A k \in CachedKeys : existing[k].present

\* the cached test: not refresh and all(k in existing for k in [...])
IsCached(refresh, existing) ==
    ~refresh /\ \A k \in CachedKeys : existing[k].present

PackInit ==
    /\ ppc = "idle"
    /\ prefresh = FALSE
    /\ pidx = 0
    /\ pdata = <<>>
    /\ pcached = FALSE
    /\ invocations = 0
    /\ completed = FALSE
    /\ at_start = [none |-> TRUE]

StoreIdle == StoreInit /\ PackInit

\* the call, up to the cached test
Invoke(refresh) ==
    /\ ppc \in {"idle", "returned", "raised"}
    /\ invocations < MaxInvocations
    /\ invocations' = invocations + 1
    /\ prefresh' = refresh
    /\ completed' = (completed \/ ppc = "returned")
    /\ at_start' = [files |-> files, manifest |-> manifest]
    /\ gen_calls' = 0
    /\ manifest' = ensure_meeting_run(manifest, now)
    /\ pdata' = <<>>
    /\ IF IsCached(refresh, manifest'.artifacts)
       THEN ppc' = "returned" /\ pcached' = TRUE /\ pidx' = 0
       ELSE ppc' = "materials" /\ pcached' = FALSE /\ pidx' = 1
    /\ UNCHANGED <<files, now>>

\* after the last material comes the pipeline
AfterMaterial(i) ==
    IF i < Len(MaterialNames)
    THEN ppc' = "materials" /\ pidx' = i + 1
    ELSE ppc' = "generate" /\ pidx' = 0

\* ensure_meeting_<kind>_md finds its file
MaterialCached ==
    /\ ppc = "materials"
    /\ read_artifact_text(MaterialNames[pidx]) # <<>>
    /\ ~prefresh
    /\ AfterMaterial(pidx)
    /\ UNCHANGED <<storeVars, prefresh, pdata, pcached, invocations, completed, at_start>>

\* ensure_meeting_<kind>_md builds the text and writes it
MaterialBuilt ==
    /\ ppc = "materials"
    /\ read_artifact_text(MaterialNames[pidx]) = <<>> \/ prefresh
    /\ gen_calls' = gen_calls + 1
    /\ write_artifact(MaterialNames[pidx], MaterialText)
    /\ AfterMaterial(pidx)
    /\ UNCHANGED <<now, prefresh, pdata, pcached, invocations, completed, at_start>>

\* ensure_meeting_<kind>_md raises (database or report service)
MaterialRaises ==
    /\ ppc = "materials"
    /\ read_artifact_text(MaterialNames[pidx]) = <<>> \/ prefresh
    /\ gen_calls' = gen_calls + 1
    /\ ppc' = "raised"
    /\ UNCHANGED <<files, manifest, now, prefresh, pidx, pdata, pcached, invocations,
                   completed, at_start>>

\* build_blackboard ... render_discussion_markdown all return
Generate(text) ==
    /\ ppc = "generate"
    /\ gen_calls' = gen_calls + 1
    /\ pdata' = text
    /\ ppc' = "persist"
    /\ pidx' = 1
    /\ UNCHANGED <<files, manifest, now, prefresh, pcached, invocations, completed, at_start>>

\* one of them raises
GenerateRaises ==
    /\ ppc = "generate"
    /\ gen_calls' = gen_calls + 1
    /\ ppc' = "raised"
    /\ UNCHANGED <<files, manifest, now, prefresh, pidx, pdata, pcached, invocations,
                   completed, at_start>>

\* the next of the eight writes; the last one is followed by the return
Persist ==
    /\ ppc = "persist"
    /\ write_artifact(PersistOrder[pidx], pdata)
    /\ IF pidx < Len(PersistOrder)
       THEN ppc' = "persist" /\ pidx' = pidx + 1
       ELSE ppc' = "returned" /\ pidx' = 0
    /\ UNCHANGED <<now, gen_calls, prefresh, pdata, pcached, invocations, completed, at_start>>

\* a write raises (OSError) before it changed anything
PersistRaises ==
    /\ ppc = "persist"
    /\ ppc' = "raised"
    /\ UNCHANGED <<storeVars, prefresh, pidx, pdata, pcached, invocations, completed, at_start>>

\* a write that records the manifest entry first and raises before the file
\* is written
PersistRaisesMidWrite_Mut ==
    /\ ppc = "persist"
    /\ manifest' = ManifestAfterWrite(manifest, PersistOrder[pidx], pdata, now)
    /\ ppc' = "raised"
    /\ UNCHANGED <<files, now, gen_calls, prefresh, pidx, pdata, pcached, invocations,
                   completed, at_start>>

\* a write raises after path.write_text, before the manifest is saved
PersistRaisesMidWrite ==
    /\ ppc = "persist"
    /\ files' = [files EXCEPT ![PersistOrder[pidx]] = pdata]
    /\ ppc' = "raised"
    /\ UNCHANGED <<manifest, now, gen_calls, prefresh, pidx, pdata, pcached, invocations,
                   completed, at_start>>

PackNext ==
    \/ Tick
    \/ \E refresh \in BOOLEAN : Invoke(refresh)
    \/ MaterialCached
    \/ MaterialBuilt
    \/ MaterialRaises
    \/ \E text \in ArtifactTexts : Generate(text)
    \/ GenerateRaises
    \/ Persist
    \/ PersistRaises
    \/ PersistRaisesMidWrite

(***************************************************************************)
(* Background jobs on one meeting: start_meeting_discussion_job and        *)
(* start_meeting_material_job each start a thread; nothing serialises the  *)
(* threads of one meeting.  The load-modify-save of the manifest is cut in *)
(* two in set_context and in the material writes: the file is written and  *)
(* the manifest loaded, then the manifest loaded is saved with the entry   *)
(* set.                                                                    *)
(***************************************************************************)
Threads == {1, 2}

JobKinds == {"discussion", "material"}

\* the text thread t generates (each run's generator output is its own)
TextOf(t) == IF t = 1 THEN <<"a">> ELSE <<"a", "a">>

JobsIdle ==
    /\ tpc = [t \in Threads |-> "none"]
    /\ tkind = [t \in Threads |-> "discussion"]
    /\ trefresh = [t \in Threads |-> FALSE]
    /\ tidx = [t \in Threads |-> 0]
    /\ tloaded = [t \in Threads |-> NoManifest]
    /\ tcached = [t \in Threads |-> FALSE]

\* _run up to the load_manifest of set_context (get_or_create_meeting_run)
StartJob(t, kind, refresh) ==
    /\ tpc[t] = "none"
    /\ tkind' = [tkind EXCEPT ![t] = kind]
    /\ trefresh' = [trefresh EXCEPT ![t] = refresh]
    /\ manifest' = ensure_meeting_run(manifest, now)
    /\ tloaded' = [tloaded EXCEPT ![t] = manifest']
    /\ tpc' = [tpc EXCEPT ![t] = "context"]
    /\ UNCHANGED <<files, now, gen_calls, tidx, tcached>>

\* save_manifest of set_context: the manifest loaded, with the context set
SaveContext(t) ==
    /\ tpc[t] = "context"
    /\ manifest' = [tloaded[t] EXCEPT !.updated_at = now]
    /\ IF tkind[t] = "discussion"
       THEN tpc' = [tpc EXCEPT ![t] = "test"] /\ tidx' = tidx
       ELSE tpc' = [tpc EXCEPT ![t] = "materials"] /\ tidx' = [tidx EXCEPT ![t] = 1]
    /\ tloaded' = [tloaded EXCEPT ![t] = NoManifest]
    /\ UNCHANGED <<files, now, gen_calls, tkind, trefresh, tcached>>

\* ensure_meeting_discussion_pack up to the cached test
CachedTest(t) ==
    /\ tpc[t] = "test"
    /\ manifest' = ensure_meeting_run(manifest, now)
    /\ IF IsCached(trefresh[t], manifest'.artifacts)
       THEN /\ tpc' = [tpc EXCEPT ![t] = "done"]
            /\ tcached' = [tcached EXCEPT ![t] = TRUE]
            /\ tloaded' = [tloaded EXCEPT ![t] = manifest']
            /\ tidx' = tidx
       ELSE /\ tpc' = [tpc EXCEPT ![t] = "materials"]
            /\ tcached' = tcached
            /\ tloaded' = tloaded
            /\ tidx' = [tidx EXCEPT ![t] = 1]
    /\ UNCHANGED <<files, now, gen_calls, tkind, trefresh>>

\* where a thread goes after its last material
AfterMaterials(t) == IF tkind[t] = "discussion" THEN "generate" ELSE "done"

\* the pc and position after material i
NextMaterial(t, i) ==
    IF i < Len(MaterialNames)
    THEN tpc' = [tpc EXCEPT ![t] = "materials"] /\ tidx' = [tidx EXCEPT ![t] = i + 1]
    ELSE tpc' = [tpc EXCEPT ![t] = AfterMaterials(t)] /\ tidx' = [tidx EXCEPT ![t] = 0]

\* ensure_meeting_<kind>_md finds its file
JobMaterialCached(t) ==
    /\ tpc[t] = "materials"
    /\ read_artifact_text(MaterialNames[tidx[t]]) # <<>>
    /\ ~trefresh[t]
    /\ NextMaterial(t, tidx[t])
    /\ UNCHANGED <<storeVars, tkind, trefresh, tloaded, tcached>>

\* ensure_meeting_<kind>_md builds its text; write_artifact_text up to load_manifest
JobMaterialWrite(t) ==
    /\ tpc[t] = "materials"
    /\ read_artifact_text(MaterialNames[tidx[t]]) = <<>> \/ trefresh[t]
    /\ files' = [files EXCEPT ![MaterialNames[tidx[t]]] = MaterialText]
    /\ tloaded' = [tloaded EXCEPT ![t] = manifest]
    /\ tpc' = [tpc EXCEPT ![t] = "msave"]
    /\ UNCHANGED <<manifest, now, gen_calls, tkind, trefresh, tidx, tcached>>

\* the rest of write_artifact_text: set the entry, save_manifest
JobMaterialSave(t) ==
    /\ tpc[t] = "msave"
    /\ manifest' = ManifestAfterWrite(tloaded[t], MaterialNames[tidx[t]], MaterialText, now)
    /\ NextMaterial(t, tidx[t])
    /\ tloaded' = [tloaded EXCEPT ![t] = NoManifest]
    /\ UNCHANGED <<files, now, gen_calls, tkind, trefresh, tcached>>

\* the phases from build_blackboard to render_discussion_markdown
JobGenerate(t) ==
    /\ tpc[t] = "generate"
    /\ tpc' = [tpc EXCEPT ![t] = "write"]
    /\ tidx' = [tidx EXCEPT ![t] = 1]
    /\ UNCHANGED <<storeVars, tkind, trefresh, tloaded, tcached>>

\* one write of PERSIST (write_artifact_json / write_artifact_text, taken
\* whole as in Persist)
JobPersist(t) ==
    /\ tpc[t] = "write"
    /\ files' = [files EXCEPT ![PersistOrder[tidx[t]]] = TextOf(t)]
    /\ manifest' = ManifestAfterWrite(manifest, PersistOrder[tidx[t]], TextOf(t), now)
    /\ IF tidx[t] < Len(PersistOrder)
       THEN tpc' = [tpc EXCEPT ![t] = "write"] /\ tidx' = [tidx EXCEPT ![t] = tidx[t] + 1]
       ELSE tpc' = [tpc EXCEPT ![t] = "done"] /\ tidx' = [tidx EXCEPT ![t] = 0]
    /\ UNCHANGED <<now, gen_calls, tkind, trefresh, tloaded, tcached>>

JobsNext ==
    \E t \in Threads :
        \/ \E kind \in JobKinds, refresh \in BOOLEAN : StartJob(t, kind, refresh)
        \/ SaveContext(t)
        \/ CachedTest(t)
        \/ JobMaterialCached(t)
        \/ JobMaterialWrite(t)
        \/ JobMaterialSave(t)
        \/ JobGenerate(t)
        \/ JobPersist(t)

(***************************************************************************)
(* The job registry (backend.py): _create_job, _run_job, _JobWriter and    *)
(* get_db_job.  Times are abstracted to set / not set, error and result to *)
(* set / not set.  A with _JOB_LOCK block is two steps: the acquisition,   *)
(* then the body with the release.                                         *)
(***************************************************************************)
NoJob ==
    [exists |-> FALSE, status |-> "queued", started_at |-> FALSE, finished_at |-> FALSE,
     logs |-> <<>>, error |-> FALSE, result |-> FALSE]

\* DbJob(id, kind) with its field defaults
NewJob == [NoJob EXCEPT !.exists = TRUE]

NoSnapshot == [none |-> TRUE]

RegistryIdle ==
    /\ lock = "free"
    /\ job = NoJob
    /\ kpc = "none"
    /\ qpc = "idle"
    /\ snap = NoSnapshot
    /\ unlocked = {}

\* the positions at which the job thread stands before a with _JOB_LOCK block
BeforeLock == {"create", "log", "result", "log_done", "log_error"}

\* start_meeting_discussion_job is called
StartRequest ==
    /\ kpc = "none"
    /\ kpc' = "create"
    /\ UNCHANGED <<lock, job, qpc, snap, unlocked>>

\* with _JOB_LOCK: (the job thread, or the request thread in _create_job)
WorkerAcquire ==
    /\ kpc \in BeforeLock
    /\ lock = "free"
    /\ lock' = "worker"
    /\ UNCHANGED <<job, kpc, qpc, snap, unlocked>>

\* _create_job: _JOBS[job.id] = job ; then thread.start()
CreateJob ==
    /\ kpc = "create" /\ lock = "worker"
    /\ job' = NewJob
    /\ lock' = "free"
    /\ kpc' = "started_at"
    /\ UNCHANGED <<qpc, snap, unlocked>>

\* _run_job: job.started_at = time.time()
SetStartedAt ==
    /\ kpc = "started_at"
    /\ job' = [job EXCEPT !.started_at = TRUE]
    /\ unlocked' = IF lock = "worker" THEN unlocked ELSE unlocked \cup {"started_at"}
    /\ kpc' = "status_running"
    /\ UNCHANGED <<lock, qpc, snap>>

\* _run_job: job.status = "running"
SetRunning ==
    /\ kpc = "status_running"
    /\ job' = [job EXCEPT !.status = "running"]
    /\ unlocked' = IF lock = "worker" THEN unlocked ELSE unlocked \cup {"status"}
    /\ kpc' = "log"
    /\ UNCHANGED <<lock, qpc, snap>>

\* _JobWriter.write: self.job.logs.append(line), in the lock
LogLine(at, line, next) ==
    /\ kpc = at /\ lock = "worker"
    /\ job' = [job EXCEPT !.logs = Append(@, line)]
    /\ lock' = "free"
    /\ kpc' = next
    /\ UNCHANGED <<qpc, snap, unlocked>>

\* _run: get_or_create_meeting_run and ensure_meeting_discussion_pack return or raise
Work(ok) ==
    /\ kpc = "work"
    /\ kpc' = IF ok THEN "result" ELSE "status_error"
    /\ UNCHANGED <<lock, job, qpc, snap, unlocked>>

\* _run: job.result = {...}, in the lock
SetResult ==
    /\ kpc = "result" /\ lock = "worker"
    /\ job' = [job EXCEPT !.result = TRUE]
    /\ lock' = "free"
    /\ kpc' = "log_done"
    /\ UNCHANGED <<qpc, snap, unlocked>>

\* _run_job: job.status = "success"
SetSuccess ==
    /\ kpc = "status_success"
    /\ job' = [job EXCEPT !.status = "success"]
    /\ unlocked' = IF lock = "worker" THEN unlocked ELSE unlocked \cup {"status"}
    /\ kpc' = "finished_at"
    /\ UNCHANGED <<lock, qpc, snap>>

\* _run_job, except: job.status = "error"
SetErrorStatus ==
    /\ kpc = "status_error"
    /\ job' = [job EXCEPT !.status = "error"]
    /\ unlocked' = IF lock = "worker" THEN unlocked ELSE unlocked \cup {"status"}
    /\ kpc' = "error"
    /\ UNCHANGED <<lock, qpc, snap>>

\* _run_job, except: job.error = str(exc)
SetError ==
    /\ kpc = "error"
    /\ job' = [job EXCEPT !.error = TRUE]
    /\ unlocked' = IF lock = "worker" THEN unlocked ELSE unlocked \cup {"error"}
    /\ kpc' = "log_error"
    /\ UNCHANGED <<lock, qpc, snap>>

\* _run_job, finally: job.finished_at = time.time()
SetFinishedAt ==
    /\ kpc = "finished_at"
    /\ job' = [job EXCEPT !.finished_at = TRUE]
    /\ unlocked' = IF lock = "worker" THEN unlocked ELSE unlocked \cup {"finished_at"}
    /\ kpc' = "end"
    /\ UNCHANGED <<lock, qpc, snap>>

\* get_db_job: with _JOB_LOCK:
PollAcquire ==
    /\ qpc = "idle"
    /\ lock = "free"
    /\ lock' = "poller"
    /\ qpc' = "locked"
    /\ UNCHANGED <<job, kpc, snap, unlocked>>

\* DbJob.as_dict (None when the id is not in _JOBS)
as_dict(j) ==
    IF ~j.exists THEN NoSnapshot
    ELSE [status |-> j.status, started_at |-> j.started_at, finished_at |-> j.finished_at,
          error |-> j.error, result |-> j.result, logs |-> j.logs]

\* get_db_job: the body and the release
PollRead ==
    /\ qpc = "locked"
    /\ snap' = as_dict(job)
    /\ lock' = "free"
    /\ qpc' = "idle"
    /\ UNCHANGED <<job, kpc, unlocked>>

RegistryNext ==
    \/ StartRequest
    \/ WorkerAcquire
    \/ CreateJob
    \/ SetStartedAt
    \/ SetRunning
    \/ LogLine("log", "meeting_id", "work")
    \/ \E ok \in BOOLEAN : Work(ok)
    \/ SetResult
    \/ LogLine("log_done", "done", "status_success")
    \/ SetSuccess
    \/ SetErrorStatus
    \/ SetError
    \/ LogLine("log_error", "[error]", "finished_at")
    \/ SetFinishedAt
    \/ PollAcquire
    \/ PollRead

(***************************************************************************)
(* The pipeline of ensure_meeting_discussion_pack (backend.py 507-669),    *)
(* after the cached test and the materials: one run, cut at every call     *)
(* into the blackboard builder, an agent, the secretary or the chair.      *)
(* `run` holds the locals of the function, `rpc` the statement about to    *)
(* execute, `ri` the position of the loop it is in, and `rlog` the calls   *)
(* made so far with the arguments the function passed.                     *)
(***************************************************************************)
OpenQuestionsCap == 10
CardQuestionsCap == 2

\* the statements of the function body, in the order of the source
StatementOrder_Mut ==
    <<"build_blackboard", "generate_stance_card", "opening_statements",
      "chair_select_questions", "round_summary_1", "directed_qa", "round_summary_2",
      "chair_propose_packages", "generate_package_preference",
      "chair_write_statement_and_minutes", "render_discussion_markdown", "persist">>

StatementOrder ==
    <<"build_blackboard", "generate_stance_card", "opening_statements",
      "round_summary_1", "chair_select_questions", "directed_qa", "round_summary_2",
      "chair_propose_packages", "generate_package_preference",
      "chair_write_statement_and_minutes", "render_discussion_markdown", "persist">>

\* opening_order: DEFAULT_ROLES filtered and sorted centrist, hawk, dove
opening_order_Mut == <<"centrist", "hawk">>

opening_order == <<"centrist", "hawk", "dove">>

\* the text "crisis" stands for the texts that contain one of the keywords
HasKeyword(text) == text = "crisis"

\* a scan that returns after the first fact
infer_crisis_mode_Mut(bb) == Len(bb.facts) > 0 /\ HasKeyword(bb.facts[1].text)

\* infer_crisis_mode: some fact's text contains a keyword
infer_crisis_mode(bb) == \E i \in 1..Len(bb.facts) : HasKeyword(bb.facts[i].text)

\* the statement after s
StatementAfter(s) ==
    LET i == CHOOSE k \in 1..Len(StatementOrder) : StatementOrder[k] = s
    IN IF i < Len(StatementOrder) THEN StatementOrder[i + 1] ELSE "complete"

\* the statement control reaches after s, with the locals r: a for loop over
\* an empty list of directed questions has no iteration
Following(s, r) ==
    LET n == StatementAfter(s)
    IN IF n = "directed_qa" /\ r.chair_q = <<>> THEN StatementAfter(n) ELSE n

NoRun ==
    [blackboard |-> NoBlackboard, crisis_mode |-> FALSE, stance_cards |-> <<>>,
     opening_speeches |-> <<>>, open_questions |-> <<>>, round_summaries |-> <<>>,
     chair_q |-> <<>>, qa_speeches |-> <<>>, packages |-> <<>>, package_views |-> <<>>,
     votes |-> <<>>, drafts |-> NoCall, discussion_md |-> NoCall]

RunIdle ==
    /\ rpc = "idle"
    /\ ri = 0
    /\ run = NoRun
    /\ rlog = <<>>

\* one call of the run: the function called and the arguments that matter
Entry(call, role, phase_name, crisis, question, delta, reads) ==
    [call |-> call, role |-> role, phase_name |-> phase_name, crisis_mode |-> crisis,
     chair_question |-> question, delta |-> delta, reads |-> reads]

\* control moves to statement s
Goto(s) == rpc' = s /\ ri' = 1

\* the blackboards of a run: values build_blackboard returns
RunBlackboards ==
    { BlackboardOf([NoObject EXCEPT
          !.facts = JList(<<[dict |-> TRUE, text |-> "a", source |-> "macro"],
                            [dict |-> TRUE, text |-> "a", source |-> " CPI "]>>),
          !.uncertainties = JList(<<[dict |-> TRUE, text |-> "a"]>>)],
          max_facts_default, max_uncertainties_default),
      BlackboardOf([NoObject EXCEPT
          !.facts = JList(<<[dict |-> TRUE, text |-> "a", source |-> "nfp"],
                            [dict |-> TRUE, text |-> "crisis", source |-> "macro"]>>),
          !.policy_menu = JList(<<[dict |-> TRUE, key |-> "cut_25",
                                   delta_bps |-> JInt(-25), label |-> ""]>>)],
          max_facts_default, max_uncertainties_default),
      BlackboardOf(NoObject, max_facts_default, max_uncertainties_default) }

\* the objects the generator hands to the calls of a run
RunStanceObjects(role) ==
    {[preferred_delta_bps |-> JInt(50), top_reasons |-> JMissing, key_risks |-> JMissing,
      questions_to_ask |-> <<>>],
     [preferred_delta_bps |-> JInt(-50), top_reasons |-> JMissing, key_risks |-> JMissing,
      questions_to_ask |-> <<IF role = "dove" THEN " " ELSE "card " \o role, " a  b ", "x">>]}

RunSpeechObjects(role) ==
    [cited_facts : {JMissing}, cited_uncertainties : {JMissing},
     ask_one_question : {"", IF role = "hawk" THEN "a b" ELSE "ask " \o role}]

RunDirectedFields ==
    {JMissing,
     JList(<<[dict |-> TRUE, to_role |-> "dove", question |-> "q"],
             [dict |-> TRUE, to_role |-> "chair", question |-> "q"],
             [dict |-> TRUE, to_role |-> " Hawk", question |-> " a  b "],
             [dict |-> TRUE, to_role |-> "dove", question |-> "q"]>>),
     JList([i \in 1..7 |->
              [dict |-> TRUE, to_role |-> IF i % 2 = 1 THEN "hawk" ELSE "centrist",
               question |-> "q" \o Decimal(i)]])}

RunPackageFields ==
    {JList(<<[dict |-> TRUE, key |-> "B", delta_bps |-> JInt(25), stance |-> "hawkish"]>>)}

RunVoteObjects ==
    [vote_delta_bps : {JInt(-25), JInt(50), JText}, cited_facts : {JMissing},
     cited_uncertainties : {JMissing}, role : {"chair"}]

RunStart ==
    /\ rpc = "idle"
    /\ Goto(StatementOrder[1])
    /\ UNCHANGED <<run, rlog>>

\* blackboard = build_blackboard(...); crisis_mode = bool(infer_crisis_mode(blackboard))
RunBuildBlackboard(bb) ==
    /\ rpc = "build_blackboard"
    /\ run' = [run EXCEPT !.blackboard = bb, !.crisis_mode = infer_crisis_mode(bb)]
    /\ rlog' = Append(rlog, Entry("build_blackboard", "", "", FALSE, "", JNull, {}))
    /\ Goto(Following("build_blackboard", run'))

\* stance_cards.get(role.role) or {}
CardOfRole(r, role) ==
    LET S == {i \in 1..Len(r.stance_cards) : r.stance_cards[i].role = role}
    IN IF S = {} THEN NoCall ELSE r.stance_cards[CHOOSE i \in S : TRUE]

\* for role in DEFAULT_ROLES: stance_cards[role.role] = generate_stance_card(...)
RunStanceCard(obj) ==
    LET role == DEFAULT_ROLES[ri]
        card == StanceCardOf(role, run.blackboard, run.crisis_mode, obj)
                    @@ [questions_to_ask |-> obj.questions_to_ask]
    IN /\ rpc = "generate_stance_card"
       /\ run' = [run EXCEPT !.stance_cards = Append(@, card)]
       /\ rlog' = Append(rlog, Entry("generate_stance_card", role, "", run.crisis_mode, "",
                                     obj.preferred_delta_bps, {"blackboard"}))
       /\ IF ri < Len(DEFAULT_ROLES)
          THEN rpc' = rpc /\ ri' = ri + 1
          ELSE Goto(Following("generate_stance_card", run'))

\* the questions of the stance cards: (sc.get("questions_to_ask") or [])[:2],
\* stripped, the empty ones left out
RECURSIVE StrippedNonEmpty(_)
StrippedNonEmpty(qs) ==
    IF qs = <<>> THEN <<>>
    ELSE IF Strip(Head(qs)) = "" THEN StrippedNonEmpty(Tail(qs))
    ELSE <<Strip(Head(qs))>> \o StrippedNonEmpty(Tail(qs))

RECURSIVE CardQuestions(_)
CardQuestions(cards) ==
    IF cards = <<>> THEN <<>>
    ELSE StrippedNonEmpty(Take(Head(cards).questions_to_ask, CardQuestionsCap))
            \o CardQuestions(Tail(cards))

\* a de-dupe loop that compares the questions as they are
RECURSIVE Dedupe_Mut(_, _)
Dedupe_Mut(qs, seen) ==
    IF qs = <<>> THEN <<>>
    ELSE LET qq == Head(qs)
         IN IF qq = "" \/ qq \in seen THEN Dedupe_Mut(Tail(qs), seen)
            ELSE <<qq>> \o Dedupe_Mut(Tail(qs), seen \cup {qq})

\* the de-dupe loop: qq = re.sub(r"\s+", " ", q).strip(), first occurrences kept
RECURSIVE Dedupe(_, _)
Dedupe(qs, seen) ==
    IF qs = <<>> THEN <<>>
    ELSE LET qq == _normalize_ws(Head(qs))
         IN IF qq = "" \/ qq \in seen THEN Dedupe(Tail(qs), seen)
            ELSE <<qq>> \o Dedupe(Tail(qs), seen \cup {qq})

\* for role in opening_order: one opening speech, its question collected; after
\* the last one the questions of the stance cards, the de-dupe and the cap
RunOpeningSpeech(obj) ==
    LET role == opening_order[ri]
        speech == SpeechOf(role, run.blackboard, obj)
                    @@ [ask_one_question |-> obj.ask_one_question]
        q == Strip(obj.ask_one_question)
        asked == IF q = "" THEN run.open_questions ELSE Append(run.open_questions, q)
        last == ri >= Len(opening_order)
    IN /\ rpc = "opening_statements"
       /\ run' = [run EXCEPT
                    !.opening_speeches = Append(@, speech),
                    !.open_questions =
                        IF last
                        THEN Take(Dedupe(asked \o CardQuestions(run.stance_cards), {}),
                                  OpenQuestionsCap)
                        ELSE asked]
       /\ rlog' = Append(rlog, Entry("generate_public_speech", role, "opening_statements",
                                     FALSE, "", JNull, {"blackboard", "stance_cards"}))
       /\ IF last
          THEN Goto(Following("opening_statements", run'))
          ELSE rpc' = rpc /\ ri' = ri + 1

\* secretary_round_summary sets obj["round"] = round_name
RunRoundSummary(stmt, round_name, blocks) ==
    /\ rpc = stmt
    /\ run' = [run EXCEPT !.round_summaries = Append(@, [round |-> round_name])]
    /\ rlog' = Append(rlog, Entry("secretary_round_summary", "", round_name, FALSE, "",
                                  JNull, {"blackboard", blocks}))
    /\ Goto(Following(stmt, run'))

RunRoundSummary1 == RunRoundSummary("round_summary_1", "opening_statements", "opening_speeches")

RunRoundSummary2 == RunRoundSummary("round_summary_2", "directed_qa", "qa_speeches")

\* chair_q = chair_select_questions(..., open_questions=open_questions, max_questions=6)
RunChairQuestions(field) ==
    /\ rpc = "chair_select_questions"
    /\ run' = [run EXCEPT !.chair_q =
                    ChairQuestionsOf(run.open_questions, max_questions_default,
                                     [directed_questions |-> field]).directed_questions]
    /\ rlog' = Append(rlog, Entry("chair_select_questions", "", "", FALSE, "", JNull,
                                  {"blackboard", "stance_cards", "open_questions"}))
    /\ Goto(Following("chair_select_questions", run'))

\* for item in chair_q["directed_questions"]: skip an item with an unknown
\* role or an empty question, else one speech of the role addressed
RunDirectedQa(obj) ==
    LET item == run.chair_q[ri]
        to_role == StripLower(item.to_role)
        question == Strip(item.question)
        skip == to_role \notin RoleNames \/ question = ""
        speech == SpeechOf(to_role, run.blackboard, obj)
                    @@ [ask_one_question |-> obj.ask_one_question]
    IN /\ rpc = "directed_qa"
       /\ run' = IF skip THEN run ELSE [run EXCEPT !.qa_speeches = Append(@, speech)]
       /\ rlog' = IF skip THEN rlog
                  ELSE Append(rlog, Entry("generate_public_speech", to_role, "directed_qa",
                                          FALSE, question, JNull,
                                          {"blackboard", "stance_cards", "chair_q"}))
       /\ IF ri < Len(run.chair_q)
          THEN rpc' = rpc /\ ri' = ri + 1
          ELSE Goto(Following("directed_qa", run'))

\* packages = chair_propose_packages(...)
RunProposePackages(field) ==
    /\ rpc = "chair_propose_packages"
    /\ run' = [run EXCEPT !.packages =
                    ChairPackagesOf(run.blackboard, [packages |-> field]).packages]
    /\ rlog' = Append(rlog, Entry("chair_propose_packages", "", "", FALSE, "", JNull,
                                  {"blackboard", "stance_cards"}))
    /\ Goto(Following("chair_propose_packages", run'))

\* for role in opening_order: package_views.append(generate_package_preference(...))
RunPackagePreference(obj) ==
    LET role == opening_order[ri]
    IN /\ rpc = "generate_package_preference"
       /\ run' = [run EXCEPT !.package_views =
                        Append(@, PackagePreferenceOf(role, run.blackboard, obj))]
       /\ rlog' = Append(rlog, Entry("generate_package_preference", role, "", FALSE, "",
                                     JNull, {"blackboard", "stance_cards", "packages"}))
       /\ rpc' = "generate_vote"
       /\ ri' = ri

\* ... votes.append(generate_vote(..., crisis_mode=crisis_mode))
RunVote(obj) ==
    LET role == opening_order[ri]
        vote == VoteOf(role, run.blackboard, run.crisis_mode, obj) @@ [dict |-> TRUE]
    IN /\ rpc = "generate_vote"
       /\ run' = [run EXCEPT !.votes = Append(@, vote)]
       /\ rlog' = Append(rlog, Entry("generate_vote", role, "", run.crisis_mode, "",
                                     obj.vote_delta_bps,
                                     {"blackboard", "stance_cards", "packages"}))
       /\ IF ri < Len(opening_order)
          THEN rpc' = "generate_package_preference" /\ ri' = ri + 1
          ELSE Goto(Following("generate_package_preference", run'))

\* drafts = chair_write_statement_and_minutes(votes=votes, round_summaries=...)
RunDecision(obj) ==
    /\ rpc = "chair_write_statement_and_minutes"
    /\ run' = [run EXCEPT !.drafts = ChairStatementOf(run.votes, obj)]
    /\ rlog' = Append(rlog, Entry("chair_write_statement_and_minutes", "", "", FALSE, "",
                                  JNull, {"blackboard", "votes", "round_summaries"}))
    /\ Goto(Following("chair_write_statement_and_minutes", run'))

\* the lines of "Phase 3" of render_discussion_markdown: for idx, it in
\* enumerate(dq): the chair's question, then qa_speeches[idx] or a placeholder
RECURSIVE QaLines(_, _, _)
QaLines(dq, qa_speeches, idx) ==
    IF idx > Len(dq) THEN <<>>
    ELSE <<[line |-> "question", who |-> dq[idx].to_role, text |-> dq[idx].question],
           IF idx <= Len(qa_speeches)
           THEN [line |-> "speech", who |-> qa_speeches[idx].role, text |-> ""]
           ELSE [line |-> "no answer", who |-> "", text |-> ""]>>
            \o QaLines(dq, qa_speeches, idx + 1)

\* render_discussion_markdown: the crisis_mode line, the stance-card lines
\* and the lines of the directed Q&A
RenderOf(r) ==
    [crisis_mode |-> r.crisis_mode,
     stance_cards |-> [i \in 1..Len(r.stance_cards) |->
                          [role |-> r.stance_cards[i].role,
                           preferred_delta_bps |-> r.stance_cards[i].preferred_delta_bps]],
     directed_qa |-> QaLines(r.chair_q, r.qa_speeches, 1)]

RunRender ==
    /\ rpc = "render_discussion_markdown"
    /\ run' = [run EXCEPT !.discussion_md = RenderOf(run)]
    /\ rlog' = Append(rlog, Entry("render_discussion_markdown", "", "", run.crisis_mode, "",
                                  JNull,
                                  {"blackboard", "stance_cards", "opening_speeches", "chair_q",
                                   "qa_speeches", "packages", "package_views", "votes"}))
    /\ Goto(Following("render_discussion_markdown", run'))

\* the manifest after the writes of PersistOrder[i..], in order
RECURSIVE ManifestAfterWrites(_, _, _, _)
ManifestAfterWrites(m, i, text, t) ==
    IF i > Len(PersistOrder) THEN m
    ELSE ManifestAfterWrites(ManifestAfterWrite(m, PersistOrder[i], text, t), i + 1, text, t)

\* the eight writes at the end
RunPersist ==
    /\ rpc = "persist"
    /\ files' = [n \in ArtifactNames |->
                    IF n \in Range(PersistOrder) THEN MaterialText ELSE files[n]]
    /\ manifest' = ManifestAfterWrites(manifest, 1, MaterialText, now)
    /\ rlog' = Append(rlog, Entry("persist", "", "", FALSE, "", JNull,
                                  {"blackboard", "stance_cards", "round_summaries",
                                   "packages", "votes", "discussion_md", "drafts"}))
    /\ rpc' = "complete"
    /\ ri' = 0
    /\ UNCHANGED <<run, now, gen_calls>>

\* the statements that call the generator
GeneratorStatements ==
    {"build_blackboard", "generate_stance_card", "opening_statements", "round_summary_1",
     "chair_select_questions", "directed_qa", "round_summary_2", "chair_propose_packages",
     "generate_package_preference", "generate_vote", "chair_write_statement_and_minutes"}

\* a call raises: the exception leaves the function, the locals are dropped
RunRaises ==
    /\ rpc \in GeneratorStatements
    /\ rpc' = "raised"
    /\ UNCHANGED <<ri, run, rlog>>

RunNext ==
    \/ RunStart /\ UNCHANGED storeVars
    \/ /\ \/ \E bb \in RunBlackboards : RunBuildBlackboard(bb)
          \/ /\ rpc = "generate_stance_card"
             /\ \E o \in RunStanceObjects(DEFAULT_ROLES[ri]) : RunStanceCard(o)
          \/ /\ rpc = "opening_statements"
             /\ \E o \in RunSpeechObjects(opening_order[ri]) : RunOpeningSpeech(o)
          \/ RunRoundSummary1
          \/ \E f \in RunDirectedFields : RunChairQuestions(f)
          \/ RunDirectedQa([cited_facts |-> JMissing, cited_uncertainties |-> JMissing,
                            ask_one_question |-> ""])
          \/ RunRoundSummary2
          \/ \E f \in RunPackageFields : RunProposePackages(f)
          \/ RunPackagePreference([package_views |-> JMissing])
          \/ \E o \in RunVoteObjects : RunVote(o)
          \/ RunDecision([statement_md |-> "s", minutes_summary_md |-> ""])
          \/ RunRender
          \/ RunRaises
       /\ UNCHANGED storeVars
    \/ RunPersist

(***************************************************************************)
(* render_discussion_markdown (discussion_service.py 910-1031).  The       *)
(* transcript is the sequence of its lines, a line the tuple of the values *)
(* its f-string formats; `renders` holds the calls made: the arguments,    *)
(* the transcript returned and the generator invocations the call made.    *)
(***************************************************************************)
\* the sections of the transcript, in the order the function appends them
SectionOrder_Mut ==
    <<"header", "facts", "uncertainties", "policy_menu", "stance_cards",
      "opening_statements", "directed_qa", "votes", "packages">>

SectionOrder ==
    <<"header", "facts", "uncertainties", "policy_menu", "stance_cards",
      "opening_statements", "directed_qa", "packages", "votes">>

\* fmt_speech(block)
fmt_speech(b) ==
    <<"speech", b.role, Strip(b.speech_md), _ensure_list(b.cited_facts),
      _ensure_list(b.cited_uncertainties)>>

\* a stance-card line that prints the questions of the card as well
StanceLines_Mut(cards) ==
    [i \in 1..Len(cards) |->
        <<"stance", cards[i].role, cards[i].preferred_delta_bps, cards[i].questions_to_ask>>]

\* f"- {k}: preferred_delta_bps={v.get('preferred_delta_bps')}" for each card
StanceLines(cards) ==
    [i \in 1..Len(cards) |-> <<"stance", cards[i].role, cards[i].preferred_delta_bps>>]

\* the speech of each block, then its question when it has one
RECURSIVE OpeningLines(_)
OpeningLines(speeches) ==
    IF speeches = <<>> THEN <<>>
    ELSE LET b == Head(speeches)
             q == Strip(b.ask_one_question)
         IN <<fmt_speech(b)>> \o (IF q = "" THEN <<>> ELSE <<<<"ask", q>>>>)
                \o OpeningLines(Tail(speeches))

\* for idx, it in enumerate(dq): the question, then qa_speeches[idx] or a placeholder
RECURSIVE DirectedQaLines(_, _, _)
DirectedQaLines(dq, qa_speeches, idx) ==
    IF idx > Len(dq) THEN <<>>
    ELSE <<<<"question", dq[idx].to_role, dq[idx].question>>,
           IF idx <= Len(qa_speeches) THEN fmt_speech(qa_speeches[idx])
           ELSE <<"no answer">>>>
            \o DirectedQaLines(dq, qa_speeches, idx + 1)

\* the views of each role that has some, under the role's heading
RECURSIVE PackageViewLines(_)
PackageViewLines(package_views) ==
    IF package_views = <<>> THEN <<>>
    ELSE LET v == Head(package_views)
             views == v.package_views
         IN (IF views = <<>> THEN <<>>
             ELSE <<<<"role", v.role>>>>
                    \o [i \in 1..Len(views) |->
                            <<"view", views[i].package_key, views[i].view, views[i].because,
                              views[i].cited_facts>>])
                \o PackageViewLines(Tail(package_views))

\* one line per vote, and the dissent sentence of a dissenting vote
RECURSIVE VoteLines(_)
VoteLines(votes) ==
    IF votes = <<>> THEN <<>>
    ELSE LET v == Head(votes)
         IN <<<<"vote", v.role, v.vote_delta_bps, Strip(v.reason),
                _ensure_list(v.cited_facts), _ensure_list(v.cited_uncertainties)>>>>
                \o (IF v.dissent /\ Strip(v.dissent_sentence) # ""
                    THEN <<<<"dissent", Strip(v.dissent_sentence)>>>> ELSE <<>>)
                \o VoteLines(Tail(votes))

\* the lines of one section
SectionLines(section, a) ==
    CASE section = "header" -> <<<<"meeting", a.meeting_id>>, <<"crisis_mode", a.crisis_mode>>>>
      [] section = "facts" ->
            [i \in 1..Len(a.blackboard.facts) |->
                <<"fact", a.blackboard.facts[i].id, a.blackboard.facts[i].source,
                  a.blackboard.facts[i].text>>]
      [] section = "uncertainties" ->
            [i \in 1..Len(a.blackboard.uncertainties) |->
                <<"uncertainty", a.blackboard.uncertainties[i].id,
                  a.blackboard.uncertainties[i].text>>]
      [] section = "policy_menu" ->
            [i \in 1..Len(a.blackboard.policy_menu) |->
                <<"option", a.blackboard.policy_menu[i].key, a.blackboard.policy_menu[i].label,
                  a.blackboard.policy_menu[i].delta_bps>>]
      [] section = "stance_cards" -> StanceLines(a.stance_cards)
      [] section = "opening_statements" -> OpeningLines(a.opening_speeches)
      [] section = "directed_qa" -> DirectedQaLines(a.chair_q, a.qa_speeches, 1)
      [] section = "packages" ->
            [i \in 1..Len(a.packages) |->
                <<"package", a.packages[i].key, a.packages[i].delta_bps, a.packages[i].stance>>]
                \o PackageViewLines(a.package_views)
      [] section = "votes" -> VoteLines(a.votes)

\* the transcript: each section's heading and lines, in the order of the source
RECURSIVE TranscriptFrom(_, _)
TranscriptFrom(i, a) ==
    IF i > Len(SectionOrder) THEN <<>>
    ELSE <<<<"heading", SectionOrder[i]>>>> \o SectionLines(SectionOrder[i], a)
            \o TranscriptFrom(i + 1, a)

\* the arguments of the calls: recorded outputs of the phases
RenderCard(role, delta, questions, position) ==
    [role |-> role, preferred_delta_bps |-> delta, top_reasons |-> JMissing,
     key_risks |-> JMissing, questions_to_ask |-> questions,
     one_sentence_position |-> position]

RenderStanceCards ==
    {<<RenderCard("centrist", JInt(0), <<>>, "p"), RenderCard("hawk", JInt(25), <<>>, "p")>>,
     <<RenderCard("centrist", JInt(0), <<"q">>, "x"), RenderCard("hawk", JInt(25), <<>>, "p")>>,
     <<RenderCard("centrist", JInt(0), <<>>, "p"), RenderCard("hawk", JInt(50), <<>>, "p")>>,
     <<RenderCard("hawk", JInt(25), <<>>, "p"), RenderCard("centrist", JInt(0), <<>>, "p")>>}

RenderSpeech(role, md, ask) ==
    [role |-> role, speech_md |-> md, cited_facts |-> JList(<<"F01">>),
     cited_uncertainties |-> JMissing, ask_one_question |-> ask]

RenderOpenings ==
    <<RenderSpeech("centrist", "s", "q"), RenderSpeech("hawk", " a  b ", "")>>

RenderQa ==
    {[chair_q |-> <<>>, qa_speeches |-> <<>>],
     [chair_q |-> <<[to_role |-> "hawk", question |-> "q"]>>, qa_speeches |-> <<>>],
     [chair_q |-> <<[to_role |-> "hawk", question |-> "q"]>>,
      qa_speeches |-> <<RenderSpeech("hawk", "s", "")>>]}

RenderVote(role, delta, dissent) ==
    [role |-> role, vote_delta_bps |-> delta, reason |-> "r", cited_facts |-> JMissing,
     cited_uncertainties |-> JMissing, dissent |-> dissent, dissent_sentence |-> "d"]

RenderVotes ==
    <<RenderVote("centrist", JInt(0), FALSE), RenderVote("hawk", JInt(25), TRUE)>>

RenderPackageViews ==
    <<[role |-> "centrist", package_views |-> <<>>],
      [role |-> "hawk",
       package_views |-> <<[package_key |-> "A", view |-> "support", because |-> "b",
                            cited_facts |-> <<"F01">>]>>]>>

RenderArguments ==
    {[meeting_id |-> "m", blackboard |-> bb, crisis_mode |-> c, stance_cards |-> s,
      opening_speeches |-> RenderOpenings, chair_q |-> q.chair_q, qa_speeches |-> q.qa_speeches,
      packages |-> <<FallbackPackage>>, package_views |-> RenderPackageViews,
      votes |-> RenderVotes] :
        bb \in {b \in RunBlackboards : b.facts # <<>>}, c \in BOOLEAN,
        s \in RenderStanceCards, q \in RenderQa}

RenderIdle == renders = <<>>

\* render_discussion_markdown: has no llm parameter and calls no generator
render_discussion_markdown(a) ==
    /\ Len(renders) < MaxRenders
    /\ renders' = Append(renders, [args |-> a, transcript |-> TranscriptFrom(1, a),
                                   generator_calls |-> 0])

RenderNext == \E a \in RenderArguments : render_discussion_markdown(a)

(***************************************************************************)
(* A meeting-discussion job from start to end: the job thread of _run_job  *)
(* (backend.py 1357-1373) with the pipeline of                             *)
(* ensure_meeting_discussion_pack in the place of its job function.  The   *)
(* job is started on a fresh meeting, or with refresh on a meeting whose   *)
(* pack an earlier job persisted; at_start holds the store as the job      *)
(* found it.                                                               *)
(***************************************************************************)
EarlierText == <<"a", "a">>

\* the manifest after the writes of the artifacts names, in order
RECURSIVE ManifestWith(_, _, _, _)
ManifestWith(m, names, text, t) ==
    IF names = <<>> THEN m
    ELSE ManifestWith(ManifestAfterWrite(m, Head(names), text, t), Tail(names), text, t)

\* the store an earlier complete job left
EarlierPack ==
    [files |-> [n \in ArtifactNames |-> EarlierText],
     manifest |-> ManifestWith(ensure_meeting_run(NoManifest, 0),
                               MaterialNames \o PersistOrder, EarlierText, 0)]

FreshStore == [files |-> [n \in ArtifactNames |-> <<>>], manifest |-> NoManifest]

InitJobRun ==
    /\ LlmIdle
    /\ BbIdle
    /\ AgIdle
    /\ JobsIdle
    /\ RegistryIdle
    /\ RunIdle
    /\ RenderIdle
    /\ ChatIdle
    /\ \E st \in {FreshStore, EarlierPack} :
          /\ files = st.files
          /\ manifest = st.manifest
          /\ at_start = st
    /\ now = 0
    /\ gen_calls = 0
    /\ ppc = "idle"
    /\ prefresh = FALSE
    /\ pidx = 0
    /\ pdata = <<>>
    /\ pcached = FALSE
    /\ invocations = 0
    /\ completed = FALSE

\* an except clause that swallows the exception of the job function
PackRaised_Mut ==
    /\ kpc = "work"
    /\ rpc = "raised"
    /\ kpc' = "result"
    /\ UNCHANGED <<lock, job, qpc, snap, unlocked, runVars, storeVars>>

\* _run: ensure_meeting_discussion_pack raised; _run_job enters its except clause
PackRaised ==
    /\ kpc = "work"
    /\ rpc = "raised"
    /\ kpc' = "status_error"
    /\ UNCHANGED <<lock, job, qpc, snap, unlocked, runVars, storeVars>>

\* _run: ensure_meeting_discussion_pack returned
PackReturned ==
    /\ kpc = "work"
    /\ rpc = "complete"
    /\ kpc' = "result"
    /\ UNCHANGED <<lock, job, qpc, snap, unlocked, runVars, storeVars>>

\* a job thread that sets status success after the try statement, on both paths
JobThreadStep_Mut ==
    \/ StartRequest
    \/ WorkerAcquire
    \/ CreateJob
    \/ SetStartedAt
    \/ SetRunning
    \/ LogLine("log", "meeting_id", "work")
    \/ SetResult
    \/ LogLine("log_done", "done", "status_success")
    \/ SetSuccess
    \/ SetErrorStatus
    \/ SetError
    \/ LogLine("log_error", "[error]", "status_success")
    \/ SetFinishedAt

\* the steps of the job thread outside the job function
JobThreadStep ==
    \/ StartRequest
    \/ WorkerAcquire
    \/ CreateJob
    \/ SetStartedAt
    \/ SetRunning
    \/ LogLine("log", "meeting_id", "work")
    \/ SetResult
    \/ LogLine("log_done", "done", "status_success")
    \/ SetSuccess
    \/ SetErrorStatus
    \/ SetError
    \/ LogLine("log_error", "[error]", "finished_at")
    \/ SetFinishedAt

\* the objects the generator hands to the calls of the job's run: one per
\* agent; the blackboards and the chair's question lists vary
JobStanceObject ==
    [preferred_delta_bps |-> JInt(50), top_reasons |-> JMissing, key_risks |-> JMissing,
     questions_to_ask |-> <<"x">>]

JobSpeechObject ==
    [cited_facts |-> JMissing, cited_uncertainties |-> JMissing, ask_one_question |-> ""]

JobVoteObject ==
    [vote_delta_bps |-> JInt(-25), cited_facts |-> JMissing, cited_uncertainties |-> JMissing,
     role |-> "chair"]

\* one statement of ensure_meeting_discussion_pack inside the job function
JobPipelineStep ==
    \/ RunStart /\ UNCHANGED storeVars
    \/ /\ \/ \E bb \in RunBlackboards : RunBuildBlackboard(bb)
          \/ RunStanceCard(JobStanceObject)
          \/ RunOpeningSpeech(JobSpeechObject)
          \/ RunRoundSummary1
          \/ \E f \in RunDirectedFields : RunChairQuestions(f)
          \/ RunDirectedQa(JobSpeechObject)
          \/ RunRoundSummary2
          \/ \E f \in RunPackageFields : RunProposePackages(f)
          \/ RunPackagePreference([package_views |-> JMissing])
          \/ RunVote(JobVoteObject)
          \/ RunDecision([statement_md |-> "s", minutes_summary_md |-> ""])
          \/ RunRender
          \/ RunRaises
       /\ UNCHANGED storeVars
    \/ RunPersist

\* a step of the job thread
JobSide ==
    \/ JobThreadStep /\ UNCHANGED <<runVars, storeVars>>
    \/ kpc = "work" /\ JobPipelineStep /\ UNCHANGED regVars
    \/ PackRaised
    \/ PackReturned

\* a step of a thread serving a poll of the job (get_db_job)
PollSide == (PollAcquire \/ PollRead) /\ UNCHANGED <<runVars, storeVars>>

JobRunNext == JobSide \/ PollSide

JobRunPinned == UNCHANGED <<llmVars, bbVars, agVars, packVars, jobVars, renderVars, chatVars>>

JobRunStep == JobRunNext /\ JobRunPinned

(***************************************************************************)
(* Specifications                                                          *)
(***************************************************************************)
\* every component before its first call
Init ==
    /\ LlmIdle
    /\ BbIdle
    /\ AgIdle
    /\ StoreIdle
    /\ JobsIdle
    /\ RegistryIdle
    /\ RunIdle
    /\ RenderIdle
    /\ ChatIdle

\* an agent or chair call about to be made on some blackboard
InitAgents ==
    /\ LlmIdle
    /\ BbIdle
    /\ AgInit
    /\ StoreIdle
    /\ JobsIdle
    /\ RegistryIdle
    /\ RunIdle
    /\ RenderIdle
    /\ ChatIdle

SpecJobRun == InitJobRun /\ [][JobRunStep]_vars

\* the job thread keeps running and every generator invocation returns or
\* raises; a thread waiting for _JOB_LOCK gets it when it is released again
\* and again; get_db_job leaves its with block
FairJobRun ==
    /\ SpecJobRun
    /\ WF_vars(JobSide /\ JobRunPinned)
    /\ SF_vars(WorkerAcquire /\ UNCHANGED <<runVars, storeVars>> /\ JobRunPinned)
    /\ WF_vars(PollRead /\ UNCHANGED <<runVars, storeVars>> /\ JobRunPinned)

SpecChat ==
    Init
        /\ [][ChatNext /\ UNCHANGED <<llmVars, bbVars, agVars, storeVars, packVars, jobVars,
                                      regVars, runVars, renderVars>>]_vars

SpecLlmJson ==
    Init
        /\ [][LlmNext /\ UNCHANGED <<bbVars, agVars, storeVars, packVars, jobVars, regVars, runVars, renderVars, chatVars>>]_vars

SpecBlackboard ==
    Init
        /\ [][BbNext /\ UNCHANGED <<llmVars, agVars, storeVars, packVars, jobVars, regVars, runVars, renderVars, chatVars>>]_vars

SpecAgents ==
    InitAgents
        /\ [][AgNext /\ UNCHANGED <<llmVars, bbVars, storeVars, packVars, jobVars, regVars, runVars, renderVars, chatVars>>]_vars

SpecPack ==
    Init
        /\ [][PackNext /\ UNCHANGED <<llmVars, bbVars, agVars, jobVars, regVars, runVars, renderVars, chatVars>>]_vars

SpecJobs ==
    Init
        /\ [][JobsNext /\ UNCHANGED <<llmVars, bbVars, agVars, packVars, regVars, runVars, renderVars, chatVars>>]_vars

SpecRegistry ==
    Init
        /\ [][RegistryNext
                /\ UNCHANGED <<llmVars, bbVars, agVars, storeVars, packVars, jobVars, runVars, renderVars, chatVars>>]_vars

SpecRender ==
    Init
        /\ [][RenderNext
                /\ UNCHANGED <<llmVars, bbVars, agVars, storeVars, packVars, jobVars, regVars,
                               runVars, chatVars>>]_vars

SpecRun ==
    Init
        /\ [][RunNext
                /\ UNCHANGED <<llmVars, bbVars, agVars, packVars, jobVars, regVars, renderVars, chatVars>>]_vars

(***************************************************************************)
(* Claims about LLMClient.chat                                             *)
(***************************************************************************)
\* a post the claim calls a timeout, a connection error or a retry status
Transient(o) ==
    \/ o.kind \in {"Timeout", "ConnectionError"}
    \/ o.kind = "response" /\ o.status \in {429, 500, 502, 503, 504}

\* a response whose content chat can return
Successful(o) == o.kind = "response" /\ o.status = 200 /\ o.body = "content"

\* the error of a failed post, as the caller sees it
ErrorOf(o) ==
    IF o.kind = "response"
    THEN IF o.status = 200 THEN [exc |-> "KeyError", status |-> 0]
         ELSE [exc |-> "HTTPError", status |-> o.status]
    ELSE [exc |-> o.kind, status |-> 0]

\* C23: one invocation of LLMClient.chat issues at most max(1, retries) HTTP
\* requests; a further request follows only a timeout, a connection error or
\* a status in {429, 500, 502, 503, 504}; any other HTTP error is raised at
\* once; the first successful response is returned and ends the attempts;
\* when the last attempt fails its error is raised.
C23_ChatRetryPolicy ==
    cpc # "idle" =>
        LET n == Len(posts)
            most == IF retries > 1 THEN retries ELSE 1
        IN /\ n <= most
           /\ \A i \in 1..(n - 1) : Transient(posts[i])
           /\ cpc = "post" => n < most
           /\ n > 0 =>
                 /\ (~Transient(posts[n]) /\ ~Successful(posts[n])) =>
                        (cpc = "raised" /\ cout = ErrorOf(posts[n]))
                 /\ Successful(posts[n]) => (cpc = "returned" /\ cout.exc = "none")
                 /\ (Transient(posts[n]) /\ n = most) =>
                        (cpc = "raised" /\ cout = ErrorOf(posts[n]))
                 /\ (Transient(posts[n]) /\ n < most) => cpc = "post"
           /\ cpc \in {"returned", "raised"} => n > 0

\* C23 witness: with retries = 3 a timeout and a 503 were retried and the
\* third request's 429 was raised
C23_Witness ==
    /\ cpc = "raised"
    /\ retries = 3
    /\ Len(posts) = 3
    /\ posts[1].kind = "Timeout"
    /\ posts[2].status = 503
    /\ posts[3].status = 429
    /\ cout = [exc |-> "HTTPError", status |-> 429]

(***************************************************************************)
(* Claims about _llm_json                                                  *)
(***************************************************************************)
\* C9: a call with retry=1 invokes the generator at most twice; the second
\* invocation happens only after the first failed and carries the original
\* messages followed by exactly one corrective user message; when the second
\* fails too, that failure is raised and there is no third invocation; when
\* the first succeeds there is no second invocation.
C9_OneCorrectiveRetry ==
    (jpc # "idle" /\ jretry = 1) =>
        /\ Len(jlog) <= 2
        /\ Len(jlog) >= 1 => jlog[1].messages = jorig
        /\ Len(jlog) >= 2 =>
              /\ ~jlog[1].res.ok
              /\ jlog[2].messages = jorig \o <<CorrectiveMsg>>
        /\ (Len(jlog) >= 1 /\ jlog[1].res.ok) => (Len(jlog) = 1 /\ jpc = "returned")
        /\ (Len(jlog) = 2 /\ ~jlog[2].res.ok) => (jpc \in {"loop", "raised"} /\ jlast = jlog[2].res.exc)
        /\ jpc = "raised" => (Len(jlog) = 2 /\ ~jlog[2].res.ok)
        /\ jpc = "returned" => jlog[Len(jlog)].res.ok

\* C9 witness: with retry=1 both invocations failed and the failure was raised
C9_Witness ==
    /\ jpc = "raised"
    /\ jretry = 1
    /\ Len(jlog) = 2
    /\ jlog[2].messages = jorig \o <<CorrectiveMsg>>

\* C26: the corrective re-prompt is issued only after a generator response
\* that failed JSON-object extraction: a chat call that raised a transport
\* failure is the last chat call of the agent call, and no chat call carrying
\* the corrective message follows it.
C26_NoRepromptAfterTransportFailure ==
    \A i \in 1..Len(jlog) :
        jlog[i].res.exc \in ChatErrors =>
            /\ i = Len(jlog)
            /\ jpc # "returned"

(***************************************************************************)
(* Claims about the agents and the chair                                   *)
(***************************************************************************)
Sign(n) == IF n < 0 THEN "cut" ELSE IF n > 0 THEN "hike" ELSE "hold"

\* the buckets the sign rule admits for a delta: the sign of the number it
\* denotes, or unknown when it is not an int
SignBuckets(x) ==
    CASE x.k = "int" -> {Sign(x.v)}
      [] x.k \in {"float", "str", "bool"} -> {Sign(x.v), "unknown"}
      [] OTHER -> {"unknown"}

VoteRecords(votes) == {i \in 1..Len(votes) : votes[i].dict}

Buckets == {"cut", "hold", "hike", "unknown"}

StatementReturned == op = "chair_write_statement_and_minutes" /\ ~out.raised

SummaryFor(t, n) ==
    out.vote_summary
        = Decimal(Max(t.cut, Max(t.hold, t.hike))) \o ":"
            \o Decimal(n - Max(t.cut, Max(t.hold, t.hike)))

\* C1 (as claimed): for N vote records the tally counts negative deltas as
\* cut, zero as hold, positive as hike and non-integers as unknown, the four
\* counts add up to N, and vote_summary is "passed:(N - passed)" with
\* passed = max(cut, hold, hike).
C1_TallyBySign ==
    StatementReturned =>
        LET votes == inp.votes
            recs == VoteRecords(votes)
            t == out.tally
        IN /\ t.cut + t.hold + t.hike + t.unknown = Cardinality(recs)
           /\ SummaryFor(t, Cardinality(recs))
           /\ \A b \in Buckets :
                /\ t[b] <= Cardinality({i \in recs : b \in SignBuckets(votes[i].vote_delta_bps)})
                /\ t[b] >= Cardinality({i \in recs : SignBuckets(votes[i].vote_delta_bps) = {b}})

\* the bucket of a delta after int(): a fraction truncates toward zero first
IntBucket(x) ==
    CASE x.k \in {"int", "str", "bool"} -> Sign(x.v)
      [] x.k = "float" -> Sign(IF x.v >= 0 THEN x.v \div 2 ELSE -((-x.v) \div 2))
      [] OTHER -> "unknown"

\* C1 (amended): for N vote records the four counts add up to N, each record
\* is counted by the sign of int(delta) (unknown when int() rejects it), and
\* vote_summary is "passed:(N - passed)" with passed = max(cut, hold, hike).
C1_TallyByIntConversion ==
    StatementReturned =>
        LET votes == inp.votes
            recs == VoteRecords(votes)
            t == out.tally
        IN /\ t.cut + t.hold + t.hike + t.unknown = Cardinality(recs)
           /\ SummaryFor(t, Cardinality(recs))
           /\ \A b \in Buckets :
                t[b] = Cardinality({i \in recs : IntBucket(votes[i].vote_delta_bps) = b})

\* C1 witness: three records, one of them a fraction and one unparseable
C1_Witness ==
    /\ StatementReturned
    /\ Cardinality(VoteRecords(inp.votes)) = 3
    /\ \E i \in VoteRecords(inp.votes) : inp.votes[i].vote_delta_bps.k = "float"
    /\ out.tally.unknown = 1
    /\ out.vote_summary = "2:1"

IsAllowedValue(x, crisis) == \E n \in AllowedDeltas(crisis) : PyEqInt(x, n)

\* C2: the delta field of every stance card and vote returned equals a member
\* of the active allowed set, and a generator value outside the set is
\* replaced by 0.
C2_DeltaInAllowedSet ==
    /\ (op = "generate_stance_card" /\ ~out.raised) =>
          /\ IsAllowedValue(out.preferred_delta_bps, crisis_mode)
          /\ ~IsAllowedValue(inp.obj.preferred_delta_bps, crisis_mode)
                => out.preferred_delta_bps = JInt(0)
    /\ (op = "generate_vote" /\ ~out.raised) =>
          /\ IsAllowedValue(out.vote_delta_bps, crisis_mode)
          /\ ~IsAllowedValue(inp.obj.vote_delta_bps, crisis_mode)
                => out.vote_delta_bps = JInt(0)

AllIn(seq, S) == \A i \in 1..Len(seq) : seq[i] \in S

\* the ids a stance card cites: the ids of the objects in a list field
CardCites(field) ==
    IF field.k = "list" THEN IdsOfDicts(field.v) ELSE <<>>

\* C3: every speech, vote and stance card returned cites only fact and
\* uncertainty ids of the blackboard or carries citation_error; a reply with
\* an invalid citation still yields a record (the only replies that make an
\* agent raise are those _llm_json failed on and a stance card whose
\* top_reasons or key_risks is a number).
C3_CitationsValidOrFlagged ==
    /\ (op \in {"generate_public_speech", "generate_vote"} /\ ~out.raised) =>
          \/ out.citation_error.present
          \/ /\ AllIn(_ensure_list(out.cited_facts), FactIdsOf(abb))
             /\ AllIn(_ensure_list(out.cited_uncertainties), UncIdsOf(abb))
    /\ (op = "generate_stance_card" /\ ~out.raised) =>
          \/ out.citation_error.present
          \/ /\ AllIn(CardCites(out.top_reasons), FactIdsOf(abb))
             /\ AllIn(CardCites(out.key_risks), UncIdsOf(abb))
    /\ (op \in {"generate_public_speech", "generate_vote", "generate_stance_card"}
            /\ out.raised) =>
          \/ inp.obj = NoCall
          \/ /\ op = "generate_stance_card"
             /\ "num" \in {inp.obj.top_reasons.k, inp.obj.key_risks.k}

\* C3 witness: a speech citing an unknown uncertainty id is returned, flagged
C3_Witness ==
    /\ op = "generate_public_speech"
    /\ ~out.raised
    /\ out.citation_error.present
    /\ AllIn(_ensure_list(out.cited_facts), FactIdsOf(abb))
    /\ ~AllIn(_ensure_list(out.cited_uncertainties), UncIdsOf(abb))

PreferenceReturned == op = "generate_package_preference" /\ ~out.raised

ViewIsValid(it, bb) ==
    /\ it.dict
    /\ ViewStripLower(it.view) \in PackageViews
    /\ AllIn(_ensure_list(it.cited_facts), FactIdsOf(bb))

\* the k-th smallest member of a set of indices
KthOf(S, k) == CHOOSE i \in S : Cardinality({j \in S : j < i}) = k - 1

\* C4: every view returned has view in {support, acceptable, oppose} and
\* cites only fact ids of the blackboard; the views returned are exactly the
\* generator's valid entries, in their original order (an entry with an
\* invalid citation is removed, the others are kept).
C4_ValidViewsKeptInOrder ==
    PreferenceReturned =>
        LET items == _ensure_list(inp.obj.package_views)
            valid == {i \in 1..Len(items) : ViewIsValid(items[i], abb)}
            views == out.package_views
        IN /\ \A k \in 1..Len(views) :
                /\ views[k].view \in PackageViews
                /\ AllIn(views[k].cited_facts, FactIdsOf(abb))
           /\ Len(views) = Cardinality(valid)
           /\ \A k \in 1..Len(views) :
                LET it == items[KthOf(valid, k)]
                IN /\ views[k].package_key = it.package_key
                   /\ views[k].view = ViewStripLower(it.view)
                   /\ views[k].cited_facts = _ensure_list(it.cited_facts)

\* C4 witness: the first entry cites an unknown fact and is removed, a later
\* valid entry is kept
C4_Witness ==
    /\ PreferenceReturned
    /\ inp.obj.package_views.k = "list"
    /\ Len(inp.obj.package_views.v) = 2
    /\ inp.obj.package_views.v[1].dict
    /\ inp.obj.package_views.v[1].view = "support"
    /\ ~AllIn(_ensure_list(inp.obj.package_views.v[1].cited_facts), FactIdsOf(abb))
    /\ Len(out.package_views) = 1
    /\ out.package_views[1].package_key = "B"

\* C5: when the generator yields fewer than 3 valid directed questions,
\* chair_select_questions returns exactly
\* max(3, min(max_questions, len(open_questions))) questions, the i-th (from
\* 0) addressed to [centrist, hawk, dove][i mod 3].
C5_FallbackCount ==
    (/\ op = "chair_select_questions"
     /\ ~out.raised
     /\ Len(DirectedOf(Take(_ensure_list(inp.obj.directed_questions), inp.max_questions))) < 3)
    =>
        /\ Len(out.directed_questions)
              = Max(3, Min(inp.max_questions, Len(inp.open_questions)))
        /\ \A i \in 1..Len(out.directed_questions) :
              out.directed_questions[i].to_role = DEFAULT_ROLES[((i - 1) % 3) + 1]

\* C6: chair_propose_packages returns between 1 and 3 packages and the
\* delta_bps of each, the fallback package included, is a delta_bps of the
\* blackboard's policy_menu.
C6_PackagesWithinMenu ==
    (op = "chair_propose_packages" /\ ~out.raised) =>
        /\ Len(out.packages) \in 1..3
        /\ \A i \in 1..Len(out.packages) : out.packages[i].delta_bps \in MenuDeltasOf(abb)

\* the delta the function tested: int() of the generator's value
OutsideAllowed(x, crisis) == ~InInts(_to_int(x), AllowedDeltas(crisis))

\* C18: a stance card or vote whose generator delta is outside the allowed
\* set is returned with the delta 0 and a flag recording the coercion
\* (invalid_vote_reason for a vote; for a stance card a key set by the engine
\* besides role, the delta and citation_error); a record whose delta was in
\* the allowed set carries no such flag.
C18_CoercedAndFlagged ==
    /\ (op = "generate_vote" /\ inp.obj # NoCall) =>
          /\ ~out.raised
          /\ OutsideAllowed(inp.obj.vote_delta_bps, crisis_mode) =>
                out.vote_delta_bps = JInt(0) /\ out.invalid_vote_reason
          /\ ~OutsideAllowed(inp.obj.vote_delta_bps, crisis_mode) => ~out.invalid_vote_reason
    /\ (op = "generate_stance_card" /\ ~out.raised) =>
          LET flags == out.engine_keys \ {"role", "preferred_delta_bps", "citation_error"}
          IN /\ OutsideAllowed(inp.obj.preferred_delta_bps, crisis_mode) =>
                    out.preferred_delta_bps = JInt(0) /\ flags # {}
             /\ ~OutsideAllowed(inp.obj.preferred_delta_bps, crisis_mode) => flags = {}

\* C19: no two views returned by generate_package_preference have the same
\* package_key.
C19_OneViewPerPackage ==
    PreferenceReturned =>
        \A i, j \in 1..Len(out.package_views) :
            out.package_views[i].package_key = out.package_views[j].package_key => i = j

(***************************************************************************)
(* Claims about ensure_meeting_discussion_pack                             *)
(***************************************************************************)
\* C10: once an invocation of ensure_meeting_discussion_pack has returned, an
\* invocation without refresh returns the cached result, makes no generator
\* call and writes nothing: every artifact file and the manifest, entry by
\* entry, are what they were when it started.
C10_SecondInvocationWritesNothing ==
    (ppc # "idle" /\ completed /\ ~prefresh) =>
        /\ ppc = "returned"
        /\ pcached
        /\ gen_calls = 0
        /\ files = at_start.files
        /\ manifest = at_start.manifest

\* C10 witness: after a generating run has written all its artifacts a second
\* invocation without refresh has returned
C10_Witness ==
    /\ ppc = "returned"
    /\ completed
    /\ ~prefresh
    /\ invocations = 2
    /\ gen_calls = 0
    /\ \A n \in ArtifactNames : files[n] # <<>> /\ manifest.artifacts[n].present

\* C11: an invocation without refresh leaves every artifact that was already
\* persisted when it started as it was (file and manifest entry): after an
\* abort between two writes the retry neither regenerates nor overwrites the
\* artifacts the aborted run had written.
C11_RetrySkipsPersisted ==
    (ppc # "idle" /\ ~prefresh) =>
        \A n \in ArtifactNames :
            at_start.manifest.artifacts[n].present =>
                /\ files[n] = at_start.files[n]
                /\ manifest.artifacts[n] = at_start.manifest.artifacts[n]

\* C22: when an invocation of ensure_meeting_discussion_pack has returned,
\* the manifest has an entry for each of the eight artifact names, with the
\* path, a time, a size and the meta of the write (the size is that of the
\* file when the invocation itself wrote the artifacts); and in every state
\* an artifact with a manifest entry has its file written (the file is
\* written before the entry is recorded).
C22_EntriesFollowFiles ==
    /\ \A n \in ArtifactNames : manifest.artifacts[n].present => files[n] # <<>>
    /\ (ppc = "returned") =>
          \A n \in {"blackboard", "stance_cards", "round_summaries", "packages", "votes",
                    "discussion", "statement", "minutes_summary"} :
              LET e == manifest.artifacts[n]
              IN /\ e.present
                 /\ e.path = n \o (IF n \in {"discussion", "statement", "minutes_summary"}
                                   THEN ".md" ELSE ".json")
                 /\ e.updated_at <= now
                 /\ e.bytes > 0
                 /\ ~pcached => e.bytes = Len(files[n])
                 /\ e.meta.kind = n

\* C22 witness: a generating invocation has returned and a later write of a
\* refreshing invocation stopped between the file and the manifest entry
C22_Witness ==
    /\ completed
    /\ ppc = "raised"
    /\ \E n \in Range(PersistOrder) :
          manifest.artifacts[n].present /\ manifest.artifacts[n].bytes # Len(files[n])

(***************************************************************************)
(* Claims about concurrent jobs on one meeting                             *)
(***************************************************************************)
\* C12: ensure_meeting_discussion_pack without refresh reports cached only
\* when each of the 8 artifact names written by PERSIST has an entry in the
\* manifest it tested.
C12_CachedOnlyWhenAllEight ==
    \A t \in Threads :
        (tpc[t] = "done" /\ tkind[t] = "discussion" /\ tcached[t]) =>
            \A n \in Range(PersistOrder) : tloaded[t].artifacts[n].present

RunningPhases == {"materials", "msave", "generate", "write"}

\* C14: at most one discussion run of the meeting is executing its phases at
\* any time.
C14_SingleRunPerMeeting ==
    Cardinality({t \in Threads : tkind[t] = "discussion" /\ tpc[t] \in RunningPhases}) <= 1

\* C28: once the artifact writes of both jobs have returned (no job stands
\* between the load and the save of a manifest), every artifact whose file
\* was written has its entry in the manifest.
C28_NoManifestEntryLost ==
    (\A t \in Threads : tpc[t] \notin {"context", "msave"}) =>
        \A n \in ArtifactNames : files[n] # <<>> => manifest.artifacts[n].present

(***************************************************************************)
(* Claims about the job registry                                           *)
(***************************************************************************)
\* C15: every write of a job's status, logs, error, result, started_at and
\* finished_at by the job thread, and every read by get_db_job, is made by a
\* thread that holds _JOB_LOCK.
C15_RegistryUnderLock ==
    /\ unlocked = {}
    /\ qpc = "locked" => lock = "poller"

\* C29: every snapshot get_db_job returns is consistent with the job's
\* progress: status success or error comes with finished_at set, status error
\* with a non-null error and the "[error]" log line, status success with the
\* result the job function stored.
C29_SnapshotConsistent ==
    snap # NoSnapshot =>
        /\ snap.status \in {"success", "error"} => snap.finished_at
        /\ snap.status = "error" =>
               /\ snap.error
               /\ \E i \in 1..Len(snap.logs) : snap.logs[i] = "[error]"
        /\ snap.status = "success" => snap.result

(***************************************************************************)
(* Claims about a meeting-discussion job                                   *)
(***************************************************************************)
\* C27: when a generation step of ensure_meeting_discussion_pack raised, none
\* of the 8 discussion artifacts is written or modified and no manifest entry
\* of theirs is changed, and the job ends with status error and an error
\* message, never with status success.
C27_AbortWritesNothing ==
    rpc = "raised" =>
        /\ \A n \in Range(PersistOrder) :
              /\ files[n] = at_start.files[n]
              /\ manifest.artifacts[n] = at_start.manifest.artifacts[n]
        /\ job.status # "success"
        /\ ~job.result
        /\ kpc = "end" =>
              /\ job.status = "error"
              /\ job.error
              /\ \E i \in 1..Len(job.logs) : job.logs[i] = "[error]"

\* C27 witness: a refresh job on a meeting with an earlier pack ended after
\* the vote of the third role raised
C27_Witness ==
    /\ rpc = "raised"
    /\ kpc = "end"
    /\ job.status = "error"
    /\ at_start = EarlierPack
    /\ Len(run.votes) = 2
    /\ Len(rlog) > 10

TerminalStatus == job.status \in {"success", "error"}

\* C30: every started meeting-discussion job eventually reaches status
\* success or error, and after that its status never changes.
C30_JobTerminates ==
    /\ (kpc # "none") ~> (kpc = "end" /\ TerminalStatus)
    /\ [][TerminalStatus => job'.status = job.status]_vars

\* C30 witness: a job has ended with status success after a complete run with
\* six directed questions
C30_Witness ==
    /\ kpc = "end"
    /\ job.status = "success"
    /\ rpc = "complete"
    /\ Len(run.chair_q) = 6
    /\ Len(run.qa_speeches) = 6

(***************************************************************************)
(* Claims about build_blackboard                                           *)
(***************************************************************************)
\* C7: in every blackboard returned, the k-th retained fact carries the ID
\* F0k and the k-th retained uncertainty the ID U0k (unique, sequential, no
\* gaps), also when generator entries were discarded.
C7_SequentialIds ==
    bpc = "returned" =>
        /\ \A k \in 1..Len(blackboard.facts) :
              blackboard.facts[k].id = _format_fact_id(k)
        /\ \A k \in 1..Len(blackboard.uncertainties) :
              blackboard.uncertainties[k].id = _format_uncertainty_id(k)

\* C8: when the generator's reply holds no parseable JSON object,
\* build_blackboard makes one corrective retry (a second llm.chat) and, the
\* retried reply being unparseable too, fails with BlackboardBuildError.
C8_RetryThenBlackboardBuildError ==
    (bpc = "raised" /\ bexc \notin ChatErrors) =>
        /\ bchat = 2
        /\ bexc = "BlackboardBuildError"


(***************************************************************************)
(* Claims about the pipeline of ensure_meeting_discussion_pack             *)
(***************************************************************************)
RolesInOrder == <<"centrist", "hawk", "dove">>

CallKey(call, role, phase_name) == <<call, role, phase_name>>

KeyOf(e) == CallKey(e.call, e.role, e.phase_name)

\* the calls of a complete run whose chair selected the directed questions dq
ExpectedCalls(dq) ==
    <<CallKey("build_blackboard", "", "")>>
        \o [i \in 1..3 |-> CallKey("generate_stance_card", RolesInOrder[i], "")]
        \o [i \in 1..3 |->
                CallKey("generate_public_speech", RolesInOrder[i], "opening_statements")]
        \o <<CallKey("secretary_round_summary", "", "opening_statements"),
             CallKey("chair_select_questions", "", "")>>
        \o [i \in 1..Len(dq) |->
                CallKey("generate_public_speech", dq[i].to_role, "directed_qa")]
        \o <<CallKey("secretary_round_summary", "", "directed_qa"),
             CallKey("chair_propose_packages", "", "")>>
        \o [i \in 1..6 |->
                IF i % 2 = 1
                THEN CallKey("generate_package_preference", RolesInOrder[(i + 1) \div 2], "")
                ELSE CallKey("generate_vote", RolesInOrder[i \div 2], "")]
        \o <<CallKey("chair_write_statement_and_minutes", "", ""),
             CallKey("render_discussion_markdown", "", ""),
             CallKey("persist", "", "")>>

\* the locals a call assigns
AssignedBy(e) ==
    CASE e.call = "build_blackboard" -> {"blackboard"}
      [] e.call = "generate_stance_card" -> {"stance_cards"}
      [] e.call = "generate_public_speech" /\ e.phase_name = "opening_statements" ->
            {"opening_speeches", "open_questions"}
      [] e.call = "generate_public_speech" /\ e.phase_name = "directed_qa" -> {"qa_speeches"}
      [] e.call = "secretary_round_summary" -> {"round_summaries"}
      [] e.call = "chair_select_questions" -> {"chair_q"}
      [] e.call = "chair_propose_packages" -> {"packages"}
      [] e.call = "generate_package_preference" -> {"package_views"}
      [] e.call = "generate_vote" -> {"votes"}
      [] e.call = "chair_write_statement_and_minutes" -> {"drafts"}
      [] e.call = "render_discussion_markdown" -> {"discussion_md"}
      [] OTHER -> {}

\* the locals assigned before the i-th call: by the earlier calls, and the
\* empty list of answers when the chair selected no question
AssignedBefore(i) ==
    UNION {AssignedBy(rlog[j]) : j \in 1..(i - 1)}
        \cup (IF run.chair_q = <<>> /\ \E j \in 1..(i - 1) : rlog[j].call = "chair_select_questions"
              THEN {"qa_speeches"} ELSE {})

CallsOf(name) == {i \in 1..Len(rlog) : rlog[i].call = name}

\* C13: the calls of a run are, in order, the blackboard build, the stance
\* cards and the opening speeches (centrist, hawk, dove), round summary 1,
\* the chair's question selection and one answer per directed question,
\* round summary 2, the package proposal and per role the preference and
\* the vote, the decision drafting, the rendering, the persisting: the calls
\* made so far are always a beginning of that sequence (no phase starts
\* before the previous one is over, none is entered twice), every call reads
\* only locals that an earlier call assigned, and the output of every call
\* made is still held (nothing is rolled back).
C13_PhasesInOrder ==
    LET expected == ExpectedCalls(run.chair_q)
    IN /\ Len(rlog) <= Len(expected)
       /\ \A i \in 1..Len(rlog) : KeyOf(rlog[i]) = expected[i]
       /\ \A i \in 1..Len(rlog) : rlog[i].reads \subseteq AssignedBefore(i)
       /\ Len(run.stance_cards) = Cardinality(CallsOf("generate_stance_card"))
       /\ Len(run.opening_speeches) + Len(run.qa_speeches)
               = Cardinality(CallsOf("generate_public_speech"))
       /\ Len(run.round_summaries) = Cardinality(CallsOf("secretary_round_summary"))
       /\ Len(run.package_views) = Cardinality(CallsOf("generate_package_preference"))
       /\ Len(run.votes) = Cardinality(CallsOf("generate_vote"))
       /\ (rpc = "complete") => Len(rlog) = Len(expected)

\* C13 witness: a run that went through every phase, directed Q&A included,
\* and wrote the eight artifacts
C13_Witness ==
    /\ rpc = "complete"
    /\ Len(run.qa_speeches) >= 3
    /\ \A n \in Range(PersistOrder) : manifest.artifacts[n].present

\* the decision step has been reached: chair_write_statement_and_minutes was called
DecisionReached == run.drafts # NoCall

VoteDeltas == [i \in 1..Len(run.votes) |-> run.votes[i].vote_delta_bps]

\* the candidates of the open-question pool, as the generator wrote them: the
\* follow-up questions of the opening speeches, then the first two questions
\* of each stance card
RECURSIVE FirstQuestions(_)
FirstQuestions(cards) ==
    IF cards = <<>> THEN <<>>
    ELSE Take(Head(cards).questions_to_ask, 2) \o FirstQuestions(Tail(cards))

PoolCandidates ==
    [i \in 1..Len(run.opening_speeches) |-> run.opening_speeches[i].ask_one_question]
        \o FirstQuestions(run.stance_cards)

\* the members of seq at the positions in I, in increasing order
RECURSIVE Selected(_, _, _)
Selected(seq, I, i) ==
    IF i > Len(seq) THEN <<>>
    ELSE (IF i \in I THEN <<seq[i]>> ELSE <<>>) \o Selected(seq, I, i + 1)

\* the pool is complete once the three opening speeches are in
PoolHandedOver == \E i \in 1..Len(rlog) : rlog[i].call = "chair_select_questions"

\* C24: the open-question pool handed to chair_select_questions holds no
\* empty string, no two entries equal after whitespace normalisation and at
\* most 10 entries; it lists the follow-up questions of the opening speeches in
\* role order first, then up to 2 questions of each stance card, each kept at
\* its first occurrence.
C24_OpenQuestionPool ==
    PoolHandedOver =>
        LET pool == run.open_questions
            N == [i \in 1..Len(PoolCandidates) |-> _normalize_ws(PoolCandidates[i])]
            First == {i \in 1..Len(N) : N[i] # "" /\ \A j \in 1..(i - 1) : N[j] # N[i]}
        IN /\ \A i \in 1..Len(pool) : pool[i] # ""
           /\ \A i, j \in 1..Len(pool) :
                 i # j => _normalize_ws(pool[i]) # _normalize_ws(pool[j])
           /\ Len(pool) <= 10
           /\ \A i \in 1..Len(run.opening_speeches) :
                 run.opening_speeches[i].role = RolesInOrder[i]
           /\ pool = Take(Selected(N, First, 1), 10)

\* C24 witness: the pool was handed over after the hawk asked "a b", a stance
\* card asked the same with other whitespace and the dove's card began with a
\* blank question; the pool holds "a b" once
C24_Witness ==
    /\ PoolHandedOver
    /\ \E i \in 1..Len(run.opening_speeches) : run.opening_speeches[i].ask_one_question = "a b"
    /\ \E i \in 1..Len(run.stance_cards) :
          /\ Len(run.stance_cards[i].questions_to_ask) >= 2
          /\ run.stance_cards[i].questions_to_ask[1] = " "
          /\ run.stance_cards[i].questions_to_ask[2] = " a  b "
    /\ Cardinality({i \in 1..Len(run.open_questions) : run.open_questions[i] = "a b"}) = 1
    /\ Len(run.open_questions) < Len(PoolCandidates)

\* C16: when the decision step is reached, the votes handed to
\* chair_write_statement_and_minutes are three, by centrist, hawk, dove in
\* that order whatever role the generator wrote into its object; the tally
\* injected into the prompt has cut + hold + hike = 3 and unknown = 0, and
\* roles_count = 3; votes -25, 0, -25 give cut 2, hold 1, hike 0, unknown 0
\* and the summary "2:1".
C16_OneVotePerRole ==
    DecisionReached =>
        /\ Len(run.votes) = 3
        /\ \A i \in 1..3 : run.votes[i].role = RolesInOrder[i]
        /\ \A i \in 1..3 : rlog[CHOOSE k \in CallsOf("generate_vote") :
                                    Cardinality({j \in CallsOf("generate_vote") : j <= k}) = i].role
                                = RolesInOrder[i]
        /\ run.drafts.tally.cut + run.drafts.tally.hold + run.drafts.tally.hike = 3
        /\ run.drafts.tally.unknown = 0
        /\ run.drafts.roles_count = 3
        /\ VoteDeltas = <<JInt(-25), JInt(0), JInt(-25)>> =>
                /\ run.drafts.tally = [cut |-> 2, hold |-> 1, hike |-> 0, unknown |-> 0]
                /\ run.drafts.vote_summary = "2:1"

\* C16 witness: the decision step reached with votes -25, 0, -25, the 0 being
\* a vote the engine coerced
C16_Witness ==
    /\ DecisionReached
    /\ VoteDeltas = <<JInt(-25), JInt(0), JInt(-25)>>
    /\ run.votes[2].invalid_vote_reason
    /\ run.drafts.vote_summary = "2:1"

\* the stance-card and vote calls of the run, as positions of rlog
DeltaCalls == CallsOf("generate_stance_card") \cup CallsOf("generate_vote")

\* the blackboard has a fact whose text contains a trigger keyword
SomeFactHasKeyword ==
    \E i \in 1..Len(run.blackboard.facts) : run.blackboard.facts[i].text = "crisis"

\* what the i-th call of rlog returned as its delta
DeltaReturned(i) ==
    IF rlog[i].call = "generate_stance_card"
    THEN run.stance_cards[Cardinality({j \in CallsOf("generate_stance_card") : j <= i})]
            .preferred_delta_bps
    ELSE run.votes[Cardinality({j \in CallsOf("generate_vote") : j <= i})].vote_delta_bps

\* C17: the crisis mode of a run is true exactly when some fact of its
\* blackboard has a text with a trigger keyword; every stance-card call and
\* every vote call of the run is passed that one value; a delta of -50 or 50
\* from the generator is returned unchanged when it is true and as 0 when it
\* is false.
C17_CrisisModeOncePerRun ==
    (rlog # <<>>) =>
        /\ run.crisis_mode = SomeFactHasKeyword
        /\ \A i \in DeltaCalls :
              /\ rlog[i].crisis_mode = SomeFactHasKeyword
              /\ rlog[i].delta \in {JInt(-50), JInt(50)} =>
                    DeltaReturned(i) = IF SomeFactHasKeyword THEN rlog[i].delta ELSE JInt(0)

\* C17 witness: a run on a blackboard whose second fact has the keyword, a
\* stance card of -50 and a vote of 50 both kept
C17_Witness ==
    /\ rpc = "complete"
    /\ SomeFactHasKeyword
    /\ ~HasKeyword(run.blackboard.facts[1].text)
    /\ \E i \in CallsOf("generate_stance_card") :
            rlog[i].delta = JInt(-50) /\ DeltaReturned(i) = JInt(-50)
    /\ \E i \in CallsOf("generate_vote") :
            rlog[i].delta = JInt(50) /\ DeltaReturned(i) = JInt(50)

\* the chair has selected its questions
QuestionsSelected == CallsOf("chair_select_questions") # {}

\* the directed Q&A calls of the run, in the order made
QaCalls == SelectSeq(rlog, LAMBDA e : e.call = "generate_public_speech"
                                        /\ e.phase_name = "directed_qa")

\* the directed Q&A loop is over
QaOver == \E i \in CallsOf("secretary_round_summary") : rlog[i].phase_name = "directed_qa"

\* C20: the chair's directed questions are at most 6, each to centrist, hawk
\* or dove and with a non-empty question; the run makes one directed_qa
\* speech call per question, in the order of the questions, the i-th by the
\* role the i-th question addresses and about that question, and holds as
\* many answers as questions when the loop is over; in the rendered
\* transcript each question line is immediately followed by the speech of
\* the role it addresses.
C20_OneAnswerPerQuestion ==
    QuestionsSelected =>
        /\ Len(run.chair_q) <= 6
        /\ \A i \in 1..Len(run.chair_q) :
              /\ run.chair_q[i].to_role \in {"centrist", "hawk", "dove"}
              /\ run.chair_q[i].question # ""
        /\ Len(QaCalls) = Len(run.qa_speeches)
        /\ Len(run.qa_speeches) <= Len(run.chair_q)
        /\ QaOver => Len(run.qa_speeches) = Len(run.chair_q)
        /\ \A i \in 1..Len(run.qa_speeches) :
              /\ run.qa_speeches[i].role = run.chair_q[i].to_role
              /\ QaCalls[i].role = run.chair_q[i].to_role
              /\ QaCalls[i].chair_question = run.chair_q[i].question
        /\ (run.discussion_md # NoCall) =>
              LET lines == run.discussion_md.directed_qa
              IN /\ Len(lines) = 2 * Len(run.chair_q)
                 /\ \A i \in 1..Len(run.chair_q) :
                       /\ lines[2 * i - 1] = [line |-> "question",
                                              who |-> run.chair_q[i].to_role,
                                              text |-> run.chair_q[i].question]
                       /\ lines[2 * i].line = "speech"
                       /\ lines[2 * i].who = run.chair_q[i].to_role

\* C20 witness: a rendered run whose chair was offered seven questions and
\* kept six, each answered by the role addressed
C20_Witness ==
    /\ run.discussion_md # NoCall
    /\ Len(run.chair_q) = 6
    /\ Len(run.qa_speeches) = 6
    /\ run.chair_q[6] = [to_role |-> "centrist", question |-> "q6"]

(***************************************************************************)
(* Claims about render_discussion_markdown                                 *)
(***************************************************************************)
\* the headings of a transcript, in the order they occur
HeadingsOf(transcript) ==
    LET hs == SelectSeq(transcript, LAMBDA l : l[1] = "heading")
    IN [i \in 1..Len(hs) |-> hs[i][2]]

PublicPart(cards) ==
    [i \in 1..Len(cards) |->
        [role |-> cards[i].role, preferred_delta_bps |-> cards[i].preferred_delta_bps]]

\* C25: two calls of render_discussion_markdown whose arguments differ only
\* in fields of the stance cards other than the role key and
\* preferred_delta_bps (reasons, risks, questions, one-sentence position)
\* return the same transcript.
C25_StanceCardsStayPrivate ==
    \A i, j \in 1..Len(renders) :
        ( /\ [renders[i].args EXCEPT !.stance_cards = <<>>]
                = [renders[j].args EXCEPT !.stance_cards = <<>>]
          /\ PublicPart(renders[i].args.stance_cards)
                = PublicPart(renders[j].args.stance_cards) )
            => renders[i].transcript = renders[j].transcript

\* C25 witness: two calls whose stance cards differ in the questions and the
\* one-sentence position only
C25_Witness ==
    /\ Len(renders) = 2
    /\ renders[1].args.stance_cards # renders[2].args.stance_cards
    /\ renders[1].args.stance_cards[1].questions_to_ask
            # renders[2].args.stance_cards[1].questions_to_ask
    /\ PublicPart(renders[1].args.stance_cards) = PublicPart(renders[2].args.stance_cards)
    /\ [renders[1].args EXCEPT !.stance_cards = <<>>]
            = [renders[2].args EXCEPT !.stance_cards = <<>>]
    /\ renders[1].transcript = renders[2].transcript

====
